---- MODULE Spec2Model ----
(***************************************************************************)
(* Batch-for-Kafka ingest API (cmd/server/main.go).                        *)
(*                                                                         *)
(* The model follows the server at the granularity of Go statements that   *)
(* touch shared state.  An HTTP handler that works under jobsMu, or that   *)
(* touches the registry only once, is one action.  processJob runs in its  *)
(* own goroutine and takes no lock: it is a sequence of steps (one per     *)
(* blocking call or per group of consecutive writes to the job record)     *)
(* that interleave freely with the handlers.  cancelJob writes the record  *)
(* and only afterwards encodes it for the response, still without any      *)
(* exclusion against processJob, so it is two steps.                       *)
(*                                                                         *)
(* The broker, the csv reader and the multipart parser are libraries: the  *)
(* model draws their results (dial ok/failed, publish acknowledged/failed, *)
(* record parsed/parse error/EOF, message fetched/fetch error, commit      *)
(* acknowledged/failed) nondeterministically.  A timestamp or a timing is  *)
(* followed as the name of the statement that wrote it, not as a clock.    *)
(*                                                                         *)
(* resp is the output of the step just taken: the HTTP response the step   *)
(* wrote, NoResponse when it wrote none.                                   *)
(***************************************************************************)
EXTENDS Naturals, Sequences, FiniteSets, TLC

\* ------------------------------------------------------------------ bounds
\* Largest number of records one upload holds.
MaxRows == 2
\* A counter of the row loop is followed up to MaxCount, a task's publish calls
\* up to MaxCalls, a log up to MaxLog messages: an input of MaxRows records
\* stays below each of them.
MaxCount == MaxRows + 1
MaxCalls == 2 * MaxRows
MaxLog == MaxRows + 1

\* ------------------------------------------------------ program constants
maxUploadBytes == 1073741824

StatePending == "PENDING"
StateRunning == "RUNNING"
StateSuccess == "SUCCESS"
StatePartialSuccess == "PARTIAL_SUCCESS"
StateFailed == "FAILED"
StateCancelled == "CANCELLED"

JobState ==
    {StatePending, StateRunning, StateSuccess, StatePartialSuccess, StateFailed, StateCancelled}

\* ------------------------------------------------------------ input spaces
\* Identifiers randomID can return, and the ids requests can name.
JobIDs == {"j1"}
ReqIDs == JobIDs \cup {"nojob"}
\* The identifier of a job that is already there when a second one is uploaded.
EarlierJobID == "j0"
AllJobIDs == JobIDs \cup {EarlierJobID}
\* Model ids a client can register, and the model_id values an upload can carry
\* ("" is an absent form field; a model id is unknown until it is registered).
ModelIDs == {"m1"}
FormModelIDs == ModelIDs \cup {""}
\* The body of a model request: whether it decodes, and the id it carries.
BadJSON == [ok |-> FALSE, ID |-> ""]
ModelBodies == {BadJSON} \cup [ok : {TRUE}, ID : ModelIDs \cup {""}]

\* First four bytes of an upload: "PAR1", "PAR2", "id,n", and four newlines.
MagicPAR1 == <<80, 65, 82, 49>>
BlankHead == <<10, 10, 10, 10>>
Heads == {MagicPAR1, <<80, 65, 82, 50>>, <<105, 100, 44, 110>>, BlankHead}
Filenames == {"data.csv", "data.bin"}

\* The file part of an upload: header.Size, the first min(4, size) bytes,
\* header.Filename and whether file.Seek succeeds.  The sizes are a file shorter
\* than the sniff, a file at the ceiling (with every head and file name) and a
\* file past it.
NoFile ==
    [present |-> FALSE, size |-> 0, head |-> <<>>, name |-> "", seek |-> TRUE,
     disk |-> FALSE]
FileParts ==
    {NoFile}
    \cup [present : {TRUE}, size : {3}, head : {<<80, 65, 82>>}, name : {"data.bin"},
          seek : {TRUE}, disk : {FALSE}]
    \cup [present : {TRUE}, size : {maxUploadBytes + 1}, head : {MagicPAR1},
          name : {"data.csv"}, seek : {TRUE}, disk : {FALSE}]
    \cup [present : {TRUE}, size : {maxUploadBytes}, head : Heads, name : Filenames,
          seek : {TRUE}, disk : {FALSE}]
    \cup [present : {TRUE}, size : {maxUploadBytes}, head : {MagicPAR1},
          name : {"data.csv"}, seek : {FALSE}, disk : {FALSE}]
\* A multipart request: whether the body parses, the model_id field, the file
\* part.  A body that does not parse has no fields.
BadForm == [form |-> FALSE, model_id |-> "", file |-> NoFile]
\* An upload without model_id is followed with no file part and with a CSV file.
CsvFile ==
    [present |-> TRUE, size |-> maxUploadBytes, head |-> <<105, 100, 44, 110>>,
     name |-> "data.csv", seek |-> TRUE, disk |-> FALSE]
Uploads ==
    {BadForm}
    \cup [form : {TRUE}, model_id : ModelIDs, file : FileParts]
    \cup [form : {TRUE}, model_id : FormModelIDs \ ModelIDs, file : {NoFile, CsvFile}]
\* ParseMultipartForm keeps a file part in memory while the parts before it left
\* room in its memory budget, and stores it in a temporary file otherwise: a
\* CSV part "file" that follows another file part filling the budget is on disk.
SpilledFile ==
    [present |-> TRUE, size |-> maxUploadBytes, head |-> <<105, 100, 44, 110>>,
     name |-> "data.csv", seek |-> TRUE, disk |-> TRUE]
SpilledUploads == [form : {TRUE}, model_id : ModelIDs, file : {SpilledFile}]

\* ------------------------------------------------------------------- state
VARIABLES
    models,     \* model registry: the ids present (models map, main.go:40)
    jobs,       \* job registry: job id -> JobStatus (jobs map, main.go:42)
    jobsMu,     \* "unlocked", or "locked" while cancelJob holds the write lock
    cancelling, \* job id of the cancelJob request between its writes and its response
    task,       \* per job: the processJob goroutine (position, rowNumber, err, file)
    topics,     \* broker: the topics that exist
    log,        \* broker: topic -> the messages appended, in offset order
    sent,       \* history: per job, the WriteMessages calls made, in call order
    resp,       \* the HTTP response the step just taken wrote (NoResponse: none)
    reader,     \* the kafka.Reader the step just taken opened (NoReader: none)
    queries,    \* the rejectedRows handlers that run step by step, in arrival order
    groups      \* broker: consumer group -> the offset committed for it

vars ==
    <<models, jobs, jobsMu, cancelling, task, topics, log, sent, resp, reader,
      queries, groups>>
\* The state of the dead-letter queries that run step by step.
qvars == <<queries, groups>>

NoJob == ""

mainTopic(id) == <<"batch_", id>>
dlqTopic(id) == <<"batch_", id, "_dlq">>
Topics == {mainTopic(id) : id \in AllJobIDs} \cup {dlqTopic(id) : id \in AllJobIDs}
\* The log the design reserves for job status messages, and all the logs of
\* the broker the model follows.
jobsTopic == <<"batch.jobs">>
Logs == Topics \cup {jobsTopic}

\* writeJSON and its wrappers: every response is [op, status, code, job, state, rows].
Response(op, status, code, id, state, rows) ==
    [op |-> op, status |-> status, code |-> code, job |-> id, state |-> state, rows |-> rows]
NoResponse == Response("none", 0, "", NoJob, "", <<>>)
badRequest(op, code) == Response(op, 400, code, NoJob, "", <<>>)
notFound(op, code) == Response(op, 404, code, NoJob, "", <<>>)
\* kafka.NewReader in rejectedRows: the topic the reader is opened on and the
\* number of messages whose offsets it committed before it was closed.
Reader(topic, committed) == [topic |-> topic, committed |-> committed]
NoReader == Reader(<<>>, 0)

internalError(op) == Response(op, 500, "INTERNAL_ERROR", NoJob, "", <<>>)

Init ==
    /\ models = {}
    /\ jobs = <<>>
    /\ jobsMu = "unlocked"
    /\ cancelling = NoJob
    /\ task = <<>>
    /\ topics = {}
    /\ log = [t \in Logs |-> <<>>]
    /\ sent = <<>>
    /\ resp = NoResponse
    /\ reader = NoReader
    /\ queries = <<>>
    /\ groups = <<>>

\* ---------------------------------------------------------- model handlers
\* createModel: a body that does not decode is refused; a model without an id
\* gets one from randomID; the model is stored under its id, over any model that
\* is already there.
createModel(b) ==
    /\ IF ~b.ok
          THEN /\ resp' = badRequest("createModel", "INVALID_JSON")
               /\ reader' = NoReader
               /\ models' = models
          ELSE /\ \E id \in (IF b.ID = "" THEN ModelIDs ELSE {b.ID}) :
                      models' = models \cup {id}
               /\ resp' = Response("createModel", 201, "", NoJob, "", <<>>)
               /\ reader' = NoReader
    /\ UNCHANGED <<jobs, jobsMu, cancelling, task, topics, log, sent>>

deleteModel(m) ==
    /\ IF m \in models
          THEN /\ models' = models \ {m}
               /\ resp' = Response("deleteModel", 204, "", NoJob, "", <<>>)
               /\ reader' = NoReader
          ELSE /\ models' = models
               /\ resp' = notFound("deleteModel", "MODEL_NOT_FOUND")
               /\ reader' = NoReader
    /\ UNCHANGED <<jobs, jobsMu, cancelling, task, topics, log, sent>>

\* ------------------------------------------------------------ job handlers
\* strings.Contains(filepath.Ext(header.Filename), ".csv")
ExtHasCsv(name) == name = "data.csv"

\* Mutant: the sniff looks at the magic bytes only.
fileType_MagicOnly(buf, name) == IF buf = MagicPAR1 THEN "parquet" ELSE "csv"

\* The sniff of createJob: the file type the four bytes and the file name give.
fileType(buf, name) ==
    IF buf = MagicPAR1 THEN "parquet"
    ELSE IF ExtHasCsv(name) \/ buf[1] # 80 THEN "csv"
    ELSE "unsupported"

\* Mutant: the registry lookup of the model is left out.
Rejection_NoModelLookup(u) ==
    IF ~u.form THEN "INVALID_MULTIPART"
    ELSE IF u.model_id = "" THEN "MISSING_MODEL_ID"
    ELSE IF ~u.file.present THEN "MISSING_FILE"
    ELSE IF u.file.size > maxUploadBytes THEN "FILE_TOO_LARGE"
    ELSE IF u.file.size < 4 THEN "READ_ERROR"
    ELSE IF ~u.file.seek THEN "INTERNAL_ERROR"
    ELSE IF fileType(u.file.head, u.file.name) = "unsupported" THEN "UNSUPPORTED_FILE_TYPE"
    ELSE ""

\* The early returns of createJob, in the order the code takes them: the error
\* code of the first check that fails, "" when the upload is accepted.
Rejection(u) ==
    IF ~u.form THEN "INVALID_MULTIPART"
    ELSE IF u.model_id = "" THEN "MISSING_MODEL_ID"
    ELSE IF u.model_id \notin models THEN "MODEL_NOT_FOUND"
    ELSE IF ~u.file.present THEN "MISSING_FILE"
    ELSE IF u.file.size > maxUploadBytes THEN "FILE_TOO_LARGE"
    ELSE IF u.file.size < 4 THEN "READ_ERROR"
    ELSE IF ~u.file.seek THEN "INTERNAL_ERROR"
    ELSE IF fileType(u.file.head, u.file.name) = "unsupported" THEN "UNSUPPORTED_FILE_TYPE"
    ELSE ""

\* The response of an early return: internalError for the failed seek,
\* badRequest for every other.
earlyReturn(op, code) == IF code = "INTERNAL_ERROR" THEN internalError(op) ELSE badRequest(op, code)

\* randomID: any identifier not yet in the registry.
randomID == JobIDs \ DOMAIN jobs

\* A time is followed as the statement whose time.Now() it holds, "" being the
\* zero time.Time; a duration as "" (zero) or the statement that measured it.
Now(statement) == statement
Since(statement) == statement

NewJobStatus(id, modelID) ==
    [JobID |-> id, ModelID |-> modelID, State |-> StatePending,
     Totals |-> [Rows |-> 0, OK |-> 0, Errors |-> 0],
     Timings |-> [WaitingMS |-> "", ProcessingMS |-> ""],
     UpdatedAt |-> Now("createJob"), StartedAt |-> "", Cancelled |-> FALSE]

\* The stream offset after io.ReadFull(file, buf) with len(buf) = n and after
\* file.Seek(offset, io.SeekStart).
ReadFull(pos, n) == pos + n
Seek(pos, offset) == offset

\* Mutant: the handle is handed to the task without the rewind.
NewTask_NoSeek(file) ==
    [pc |-> "start", rowNumber |-> 0, err |-> "",
     f |-> [blank |-> file.head = BlankHead, recs |-> <<>>, eof |-> FALSE,
            disk |-> file.disk, closed |-> FALSE, pos |-> ReadFull(0, 4)]]

\* The goroutine `go processJob(js, file, fileType)` before its first statement.
\* f is the multipart file after the seek back to offset 0: whether it starts
\* with blank lines, the records the csv reader has taken from it so far ("ok"
\* for a record that parsed, "bad" for a parse error) and whether the reader
\* has reached the end of the input; pos is the offset the handle has when the
\* task receives it, where csv.NewReader(f) starts to read.
\* processJob never reads its kind parameter, so the goroutine does not carry it.
NewTask(file) ==
    [pc |-> "start", rowNumber |-> 0, err |-> "",
     f |-> [blank |-> file.head = BlankHead, recs |-> <<>>, eof |-> FALSE,
            disk |-> file.disk, closed |-> FALSE, pos |-> Seek(ReadFull(0, 4), 0)]]

\* Mutant: the record is put in the registry before the file part is checked.
createJob_InsertBeforeFileChecks(u) ==
    IF Rejection(u) \in {"INVALID_MULTIPART", "MISSING_MODEL_ID", "MODEL_NOT_FOUND"}
       THEN /\ resp' = earlyReturn("createJob", Rejection(u))
            /\ reader' = NoReader
            /\ UNCHANGED <<models, jobs, jobsMu, cancelling, task, topics, log, sent>>
       ELSE /\ jobsMu = "unlocked"
            /\ \E id \in randomID :
                  /\ jobs' = jobs @@ (id :> NewJobStatus(id, u.model_id))
                  /\ task' = IF Rejection(u) = "" THEN task @@ (id :> NewTask(u.file)) ELSE task
                  /\ sent' = IF Rejection(u) = "" THEN sent @@ (id :> <<>>) ELSE sent
                  /\ resp' = IF Rejection(u) = ""
                                THEN Response("createJob", 202, "", id, "", <<>>)
                                ELSE earlyReturn("createJob", Rejection(u))
                  /\ reader' = NoReader
            /\ UNCHANGED <<models, jobsMu, cancelling, topics, log>>

createJob(u) ==
    IF Rejection(u) # ""
       THEN /\ resp' = earlyReturn("createJob", Rejection(u))
            /\ reader' = NoReader
            /\ UNCHANGED <<models, jobs, jobsMu, cancelling, task, topics, log, sent>>
       ELSE /\ jobsMu = "unlocked"
            /\ \E id \in randomID :
                  /\ jobs' = jobs @@ (id :> NewJobStatus(id, u.model_id))
                  /\ task' = task @@ (id :> NewTask(u.file))
                  /\ sent' = sent @@ (id :> <<>>)
                  /\ resp' = Response("createJob", 202, "", id, "", <<>>)
                  /\ reader' = NoReader
            /\ UNCHANGED <<models, jobsMu, cancelling, topics, log>>

\* ------------------------------------------------- processJob (goroutine)
\* js.Totals.<field>++ and js.State = s on the record of job id.
IncTotal(js, field) == [js EXCEPT !.Totals[field] = @ + 1]
SetState(js, s) == [js EXCEPT !.State = s]

\* json.Marshal of a parsed record and of a RejectedRow (the message values),
\* and json.Unmarshal into a RejectedRow.  A record is identified by its row.
MarshalRecord(row) == <<"rec", row>>
MarshalRejectedRow(rr) == <<"rejected", rr.job_id, rr.row_number, rr.error>>
IsRejectedRowJSON(v) == Len(v) = 4 /\ v[1] = "rejected"
UnmarshalRejectedRow(v) == [job_id |-> v[2], row_number |-> v[3], error |-> v[4]]

\* Mutant: an acknowledged message lands in front of the messages written before
\* it (an asynchronous writer whose batches overtake each other).
Append1_Front(t, key, value) == [log EXCEPT ![t] = <<[key |-> key, value |-> value]>> \o @]

\* kafka.Writer.WriteMessages acknowledged: the broker appends the message
\* (creating the topic when it does not exist yet).
Append1(t, key, value) == [log EXCEPT ![t] = Append(@, [key |-> key, value |-> value])]


\* Lines 240-243: State = RUNNING.
processJobStart(id) ==
    /\ task[id].pc = "start"
    /\ jobs' = [jobs EXCEPT ![id] = [SetState(@, StateRunning) EXCEPT
                                     !.StartedAt = Now("processJob"),
                                     !.UpdatedAt = Now("processJob")]]
    /\ task' = [task EXCEPT ![id].pc = "dial"]
    /\ resp' = NoResponse
    /\ reader' = NoReader
    /\ UNCHANGED <<models, jobsMu, cancelling, topics, log, sent>>

\* Mutant: on a failed dial the goroutine returns without writing FAILED.
processJobDial_NoFailedState(id) ==
    /\ task[id].pc = "dial"
    /\ \/ task' = [task EXCEPT ![id].pc = "aborted"]
       \/ task' = [task EXCEPT ![id].pc = "provision"]
    /\ resp' = NoResponse
    /\ reader' = NoReader
    /\ UNCHANGED <<models, jobs, jobsMu, cancelling, topics, log, sent>>

\* Mutant: the return after a failed dial is missing; the task goes on to the
\* row loop with writers for logs it never created.
processJobDial_NoReturn(id) ==
    /\ task[id].pc = "dial"
    /\ \/ /\ jobs' = [jobs EXCEPT ![id] = [SetState(@, StateFailed) EXCEPT
                                           !.UpdatedAt = Now("Dial")]]
          /\ task' = [task EXCEPT ![id].pc = "read"]
       \/ /\ task' = [task EXCEPT ![id].pc = "provision"]
          /\ jobs' = jobs
    /\ resp' = NoResponse
    /\ reader' = NoReader
    /\ UNCHANGED <<models, jobsMu, cancelling, topics, log, sent>>

\* Lines 270-277: kafka.Dial; on failure State = FAILED and the goroutine returns
\* (position "aborted"; "done" is the return at the end of the function).
processJobDial(id) ==
    /\ task[id].pc = "dial"
    /\ \/ /\ jobs' = [jobs EXCEPT ![id] = [SetState(@, StateFailed) EXCEPT
                                           !.UpdatedAt = Now("Dial")]]
          /\ task' = [task EXCEPT ![id].pc = "aborted"]
       \/ /\ task' = [task EXCEPT ![id].pc = "provision"]
          /\ jobs' = jobs
    /\ resp' = NoResponse
    /\ reader' = NoReader
    /\ UNCHANGED <<models, jobsMu, cancelling, topics, log, sent>>

\* Mutant: a broker that answers "already exists" fails the job.
processJobCreateTopics_FailOnExisting(id) ==
    /\ task[id].pc = "provision"
    /\ IF {mainTopic(id), dlqTopic(id)} \subseteq topics
          THEN /\ jobs' = [jobs EXCEPT ![id] = SetState(@, StateFailed)]
               /\ task' = [task EXCEPT ![id].pc = "aborted"]
               /\ topics' = topics
          ELSE /\ \/ topics' = topics \cup {mainTopic(id), dlqTopic(id)}
                  \/ topics' = topics
               /\ task' = [task EXCEPT ![id].pc = "read"]
               /\ jobs' = jobs
    /\ resp' = NoResponse
    /\ reader' = NoReader
    /\ UNCHANGED <<models, jobsMu, cancelling, log, sent>>

\* Lines 279-305: conn.CreateTopics(main, dlq); an error is logged and ignored.
processJobCreateTopics(id) ==
    /\ task[id].pc = "provision"
    /\ \/ topics' = topics \cup {mainTopic(id), dlqTopic(id)}
       \/ topics' = topics
    /\ task' = [task EXCEPT ![id].pc = "read"]
    /\ resp' = NoResponse
    /\ reader' = NoReader
    /\ UNCHANGED <<models, jobs, jobsMu, cancelling, log, sent>>

\* Mutant: the row loop polls js.Cancelled and breaks.
\* A read of an upload kept in memory always succeeds, and so does a read of a
\* temporary file while its handle is open; a read of a closed os.File returns
\* an error that is not io.EOF, every time.
Readable(f) == ~(f.disk /\ f.closed)

\* A count followed exactly up to max; max stands for every larger value.
UpTo(max, n) == IF n < max THEN n + 1 ELSE n

\* The calls of a task are recorded up to MaxCalls of them.
Called(calls, call) == IF Len(calls) < MaxCalls THEN Append(calls, call) ELSE calls

processJobRead_StopOnCancel(id) ==
    LET t == task[id] IN
    /\ t.pc = "read"
    /\ \/ /\ jobs[id].Cancelled
          /\ task' = [task EXCEPT ![id].pc = "finish"]
          /\ jobs' = jobs
       \/ /\ ~jobs[id].Cancelled
          /\ t.f.recs = <<>> => t.f.blank
          /\ task' = [task EXCEPT ![id].pc = "finish", ![id].rowNumber = @ + 1,
                                  ![id].f.eof = TRUE]
          /\ jobs' = jobs
       \/ /\ ~jobs[id].Cancelled
          /\ Len(t.f.recs) < MaxRows
          /\ task' = [task EXCEPT ![id].pc = "dlq", ![id].rowNumber = @ + 1,
                                  ![id].err = "parse", ![id].f.recs = Append(@, "bad")]
          /\ jobs' = [jobs EXCEPT ![id] = IncTotal(@, "Errors")]
       \/ /\ ~jobs[id].Cancelled
          /\ Len(t.f.recs) < MaxRows
          /\ task' = [task EXCEPT ![id].pc = "publish", ![id].rowNumber = @ + 1,
                                  ![id].f.recs = Append(@, "ok")]
          /\ jobs' = [jobs EXCEPT ![id] = IncTotal(@, "Rows")]
    /\ resp' = NoResponse
    /\ reader' = NoReader
    /\ UNCHANGED <<models, jobsMu, cancelling, topics, log, sent>>

\* Lines 338-355: rowNumber++, rl.Read(): end of input, a parse error, or a record.
\* Mutant: totals.rows counts every record read, malformed ones included.
processJobRead_RowsCountsAttempts(id) ==
    LET t == task[id] IN
    /\ t.pc = "read"
    /\ \/ /\ t.f.recs = <<>> => t.f.blank
          /\ task' = [task EXCEPT ![id].pc = "finish", ![id].rowNumber = @ + 1,
                                  ![id].f.eof = TRUE]
          /\ jobs' = jobs
       \/ /\ Len(t.f.recs) < MaxRows
          /\ task' = [task EXCEPT ![id].pc = "dlq", ![id].rowNumber = @ + 1,
                                  ![id].err = "parse", ![id].f.recs = Append(@, "bad")]
          /\ jobs' = [jobs EXCEPT ![id] = IncTotal(IncTotal(@, "Rows"), "Errors")]
       \/ /\ Len(t.f.recs) < MaxRows
          /\ task' = [task EXCEPT ![id].pc = "publish", ![id].rowNumber = @ + 1,
                                  ![id].f.recs = Append(@, "ok")]
          /\ jobs' = [jobs EXCEPT ![id] = IncTotal(@, "Rows")]
    /\ resp' = NoResponse
    /\ reader' = NoReader
    /\ UNCHANGED <<models, jobsMu, cancelling, topics, log, sent>>

\* Mutant: the row counter counts the records that parsed only.
processJobRead_CountsParsed(id) ==
    LET t == task[id] IN
    /\ t.pc = "read"
    /\ \/ /\ t.f.recs = <<>> => t.f.blank
          /\ task' = [task EXCEPT ![id].pc = "finish", ![id].f.eof = TRUE]
          /\ jobs' = jobs
       \/ /\ Len(t.f.recs) < MaxRows
          /\ task' = [task EXCEPT ![id].pc = "dlq",
                                  ![id].err = "parse", ![id].f.recs = Append(@, "bad")]
          /\ jobs' = [jobs EXCEPT ![id] = IncTotal(@, "Errors")]
       \/ /\ Len(t.f.recs) < MaxRows
          /\ task' = [task EXCEPT ![id].pc = "publish", ![id].rowNumber = @ + 1,
                                  ![id].f.recs = Append(@, "ok")]
          /\ jobs' = [jobs EXCEPT ![id] = IncTotal(@, "Rows")]
    /\ resp' = NoResponse
    /\ reader' = NoReader
    /\ UNCHANGED <<models, jobsMu, cancelling, topics, log, sent>>

processJobRead(id) ==
    LET t == task[id] IN
    /\ t.pc = "read"
    /\ \/ /\ Readable(t.f)
          /\ t.f.recs = <<>> => t.f.blank
          /\ task' = [task EXCEPT ![id].pc = "finish", ![id].rowNumber = @ + 1,
                                  ![id].f.eof = TRUE]
          /\ jobs' = jobs
       \/ /\ Readable(t.f)
          /\ Len(t.f.recs) < MaxRows
          /\ task' = [task EXCEPT ![id].pc = "dlq", ![id].rowNumber = @ + 1,
                                  ![id].err = "parse", ![id].f.recs = Append(@, "bad")]
          /\ jobs' = [jobs EXCEPT ![id] = IncTotal(@, "Errors")]
       \/ /\ Readable(t.f)
          /\ Len(t.f.recs) < MaxRows
          /\ task' = [task EXCEPT ![id].pc = "publish", ![id].rowNumber = @ + 1,
                                  ![id].f.recs = Append(@, "ok")]
          /\ jobs' = [jobs EXCEPT ![id] = IncTotal(@, "Rows")]
       \/ /\ ~Readable(t.f)
          /\ task' = [task EXCEPT ![id].pc = "dlq", ![id].rowNumber = UpTo(MaxCount, @),
                                  ![id].err = "closed"]
          /\ jobs' = [jobs EXCEPT ![id].Totals.Errors = UpTo(MaxCount, @)]
    /\ resp' = NoResponse
    /\ reader' = NoReader
    /\ UNCHANGED <<models, jobsMu, cancelling, topics, log, sent>>

\* Mutant: an acknowledged publish does not count the record in Totals.OK.
processJobPublish_NoOk(id) ==
    LET t == task[id] IN
    /\ t.pc = "publish"
    /\ \/ /\ log' = Append1(mainTopic(id), id, MarshalRecord(t.rowNumber))
          /\ topics' = topics \cup {mainTopic(id)}
          /\ sent' = [sent EXCEPT ![id] = Append(@, [to |-> "main", row |-> t.rowNumber, ack |-> TRUE])]
          /\ jobs' = jobs
          /\ task' = [task EXCEPT ![id].pc = "read"]
       \/ /\ sent' = [sent EXCEPT ![id] = Append(@, [to |-> "main", row |-> t.rowNumber, ack |-> FALSE])]
          /\ jobs' = [jobs EXCEPT ![id] = IncTotal(@, "Errors")]
          /\ task' = [task EXCEPT ![id].pc = "dlq", ![id].err = "write"]
          /\ UNCHANGED <<topics, log>>
    /\ resp' = NoResponse
    /\ reader' = NoReader
    /\ UNCHANGED <<models, jobsMu, cancelling>>

\* Lines 357-379: json.Marshal(rec) (cannot fail for a []string), then
\* writer.WriteMessages: acknowledged (OK++) or failed (Errors++, to the DLQ).
\* Mutant: a failed primary publish is counted as an error and as ok.
processJobPublish_CountsBoth(id) ==
    LET t == task[id] IN
    /\ t.pc = "publish"
    /\ \/ /\ log' = Append1(mainTopic(id), id, MarshalRecord(t.rowNumber))
          /\ topics' = topics \cup {mainTopic(id)}
          /\ sent' = [sent EXCEPT ![id] = Append(@, [to |-> "main", row |-> t.rowNumber, ack |-> TRUE])]
          /\ jobs' = [jobs EXCEPT ![id] = IncTotal(@, "OK")]
          /\ task' = [task EXCEPT ![id].pc = "read"]
       \/ /\ sent' = [sent EXCEPT ![id] = Append(@, [to |-> "main", row |-> t.rowNumber, ack |-> FALSE])]
          /\ jobs' = [jobs EXCEPT ![id] = IncTotal(IncTotal(@, "OK"), "Errors")]
          /\ task' = [task EXCEPT ![id].pc = "dlq", ![id].err = "write"]
          /\ UNCHANGED <<topics, log>>
    /\ resp' = NoResponse
    /\ reader' = NoReader
    /\ UNCHANGED <<models, jobsMu, cancelling>>

\* Mutant: a record whose primary publish failed goes to the dead-letter log
\* without being counted in Totals.Errors.
processJobPublish_ErrorNotCounted(id) ==
    LET t == task[id] IN
    /\ t.pc = "publish"
    /\ \/ /\ log' = Append1(mainTopic(id), id, MarshalRecord(t.rowNumber))
          /\ topics' = topics \cup {mainTopic(id)}
          /\ sent' = [sent EXCEPT ![id] = Append(@, [to |-> "main", row |-> t.rowNumber, ack |-> TRUE])]
          /\ jobs' = [jobs EXCEPT ![id] = IncTotal(@, "OK")]
          /\ task' = [task EXCEPT ![id].pc = "read"]
       \/ /\ sent' = [sent EXCEPT ![id] = Append(@, [to |-> "main", row |-> t.rowNumber, ack |-> FALSE])]
          /\ jobs' = jobs
          /\ task' = [task EXCEPT ![id].pc = "dlq", ![id].err = "write"]
          /\ UNCHANGED <<topics, log>>
    /\ resp' = NoResponse
    /\ reader' = NoReader
    /\ UNCHANGED <<models, jobsMu, cancelling>>

processJobPublish(id) ==
    LET t == task[id] IN
    /\ t.pc = "publish"
    /\ \/ /\ log' = Append1(mainTopic(id), id, MarshalRecord(t.rowNumber))
          /\ topics' = topics \cup {mainTopic(id)}
          /\ sent' = [sent EXCEPT ![id] = Append(@, [to |-> "main", row |-> t.rowNumber, ack |-> TRUE])]
          /\ jobs' = [jobs EXCEPT ![id] = IncTotal(@, "OK")]
          /\ task' = [task EXCEPT ![id].pc = "read"]
       \/ /\ sent' = [sent EXCEPT ![id] = Append(@, [to |-> "main", row |-> t.rowNumber, ack |-> FALSE])]
          /\ jobs' = [jobs EXCEPT ![id] = IncTotal(@, "Errors")]
          /\ task' = [task EXCEPT ![id].pc = "dlq", ![id].err = "write"]
          /\ UNCHANGED <<topics, log>>
    /\ resp' = NoResponse
    /\ reader' = NoReader
    /\ UNCHANGED <<models, jobsMu, cancelling>>

\* Mutant: a rejected row ends the row loop (break in place of continue).
sendToDLQ_ThenStop(id) ==
    LET t == task[id]
        rejectedRow == [job_id |-> jobs[id].JobID, row_number |-> t.rowNumber, error |-> t.err]
    IN
    /\ t.pc = "dlq"
    /\ \/ /\ log' = Append1(dlqTopic(id), id, MarshalRejectedRow(rejectedRow))
          /\ topics' = topics \cup {dlqTopic(id)}
          /\ sent' = [sent EXCEPT ![id] = Append(@, [to |-> "dlq", row |-> t.rowNumber, ack |-> TRUE])]
       \/ /\ sent' = [sent EXCEPT ![id] = Append(@, [to |-> "dlq", row |-> t.rowNumber, ack |-> FALSE])]
          /\ UNCHANGED <<topics, log>>
    /\ task' = [task EXCEPT ![id].pc = "finish", ![id].err = ""]
    /\ resp' = NoResponse
    /\ reader' = NoReader
    /\ UNCHANGED <<models, jobs, jobsMu, cancelling>>

\* Mutant: the RejectedRow carries a 0-based row number.
sendToDLQ_ZeroBased(id) ==
    LET t == task[id]
        rejectedRow == [job_id |-> jobs[id].JobID, row_number |-> t.rowNumber - 1, error |-> t.err]
    IN
    /\ t.pc = "dlq"
    /\ \/ /\ log' = Append1(dlqTopic(id), id, MarshalRejectedRow(rejectedRow))
          /\ topics' = topics \cup {dlqTopic(id)}
          /\ sent' = [sent EXCEPT ![id] = Append(@, [to |-> "dlq", row |-> t.rowNumber, ack |-> TRUE])]
       \/ /\ sent' = [sent EXCEPT ![id] = Append(@, [to |-> "dlq", row |-> t.rowNumber, ack |-> FALSE])]
          /\ UNCHANGED <<topics, log>>
    /\ task' = [task EXCEPT ![id].pc = "read", ![id].err = ""]
    /\ resp' = NoResponse
    /\ reader' = NoReader
    /\ UNCHANGED <<models, jobs, jobsMu, cancelling>>

\* Mutant: the tasks share one dead-letter writer, opened on the log of the
\* first job of the registry.
sendToDLQ_SharedWriter(id) ==
    LET t == task[id]
        rejectedRow == [job_id |-> jobs[id].JobID, row_number |-> t.rowNumber, error |-> t.err]
        first == CHOOSE j \in DOMAIN jobs : \A k \in DOMAIN jobs : j = k \/ j = EarlierJobID
    IN
    /\ t.pc = "dlq"
    /\ \/ /\ Len(log[dlqTopic(first)]) < MaxLog
          /\ log' = Append1(dlqTopic(first), id, MarshalRejectedRow(rejectedRow))
          /\ topics' = topics \cup {dlqTopic(first)}
          /\ sent' = [sent EXCEPT ![id] = Called(@, [to |-> "dlq", row |-> t.rowNumber, ack |-> TRUE])]
       \/ /\ sent' = [sent EXCEPT ![id] = Called(@, [to |-> "dlq", row |-> t.rowNumber, ack |-> FALSE])]
          /\ UNCHANGED <<topics, log>>
    /\ task' = [task EXCEPT ![id].pc = "read", ![id].err = ""]
    /\ resp' = NoResponse
    /\ reader' = NoReader
    /\ UNCHANGED <<models, jobs, jobsMu, cancelling>>

\* Lines 308-333: the RejectedRow is encoded and written to the DLQ topic once;
\* a failed write is logged and dropped.
\* Mutant: a dead-letter publish that failed is made again.
sendToDLQ_Retries(id) ==
    LET t == task[id]
        rejectedRow == [job_id |-> jobs[id].JobID, row_number |-> t.rowNumber, error |-> t.err]
    IN
    /\ t.pc = "dlq"
    /\ \/ /\ Len(log[dlqTopic(id)]) < MaxLog
          /\ log' = Append1(dlqTopic(id), id, MarshalRejectedRow(rejectedRow))
          /\ topics' = topics \cup {dlqTopic(id)}
          /\ sent' = [sent EXCEPT ![id] = Called(@, [to |-> "dlq", row |-> t.rowNumber, ack |-> TRUE])]
          /\ task' = [task EXCEPT ![id].pc = "read", ![id].err = ""]
       \/ /\ Len(sent[id]) < MaxCalls
          /\ sent' = [sent EXCEPT ![id] = Called(@, [to |-> "dlq", row |-> t.rowNumber, ack |-> FALSE])]
          /\ UNCHANGED <<topics, log, task>>
    /\ resp' = NoResponse
    /\ reader' = NoReader
    /\ UNCHANGED <<models, jobs, jobsMu, cancelling>>

sendToDLQ(id) ==
    LET t == task[id]
        rejectedRow == [job_id |-> jobs[id].JobID, row_number |-> t.rowNumber, error |-> t.err]
    IN
    /\ t.pc = "dlq"
    /\ \/ /\ Len(log[dlqTopic(id)]) < MaxLog
          /\ log' = Append1(dlqTopic(id), id, MarshalRejectedRow(rejectedRow))
          /\ topics' = topics \cup {dlqTopic(id)}
          /\ sent' = [sent EXCEPT ![id] = Called(@, [to |-> "dlq", row |-> t.rowNumber, ack |-> TRUE])]
       \/ /\ sent' = [sent EXCEPT ![id] = Called(@, [to |-> "dlq", row |-> t.rowNumber, ack |-> FALSE])]
          /\ UNCHANGED <<topics, log>>
    /\ task' = [task EXCEPT ![id].pc = "read", ![id].err = ""]
    /\ resp' = NoResponse
    /\ reader' = NoReader
    /\ UNCHANGED <<models, jobs, jobsMu, cancelling>>

\* Mutant: any error makes the job PARTIAL_SUCCESS, whether or not a row succeeded.
FinalState_PartialOnAnyError(totals) ==
    IF totals.Errors > 0 /\ totals.OK >= 0 THEN StatePartialSuccess
    ELSE IF totals.Errors > 0 THEN StateFailed
    ELSE StateSuccess

\* Lines 384-391: the final state from the counters.
\* Mutant: a job that published nothing fails, its input being empty or not.
FinalState_FailedWhenNothingOk(totals) ==
    IF totals.Errors > 0 /\ totals.OK > 0 THEN StatePartialSuccess
    ELSE IF totals.OK = 0 THEN StateFailed
    ELSE StateSuccess

FinalState(totals) ==
    IF totals.Errors > 0 /\ totals.OK > 0 THEN StatePartialSuccess
    ELSE IF totals.Errors > 0 THEN StateFailed
    ELSE StateSuccess

\* Mutant: the goroutine leaves the state alone once the job was cancelled.
processJobFinish_KeepCancelled(id) ==
    /\ task[id].pc = "finish"
    /\ jobs' = IF jobs[id].Cancelled THEN jobs
               ELSE [jobs EXCEPT ![id] = SetState(@, FinalState(@.Totals))]
    /\ task' = [task EXCEPT ![id].pc = "done"]
    /\ resp' = NoResponse
    /\ reader' = NoReader
    /\ UNCHANGED <<models, jobsMu, cancelling, topics, log, sent>>

\* Lines 382-397: after end of input the state is written and the goroutine returns.
processJobFinish(id) ==
    /\ task[id].pc = "finish"
    /\ jobs' = [jobs EXCEPT ![id] = [SetState(@, FinalState(@.Totals)) EXCEPT
                                     !.Timings.ProcessingMS = Since("start"),
                                     !.UpdatedAt = Now("completed")]]
    /\ task' = [task EXCEPT ![id].pc = "done"]
    /\ resp' = NoResponse
    /\ reader' = NoReader
    /\ UNCHANGED <<models, jobsMu, cancelling, topics, log, sent>>

\* ------------------------------------------------ status, cancel, dead letters
\* Mutant: a job the task has not picked up yet is not found.
getJob_HidesPending(id) ==
    /\ jobsMu = "unlocked"
    /\ resp' = IF id \in DOMAIN jobs /\ jobs[id].State # StatePending
                 THEN Response("getJob", 200, "", id, jobs[id].State, <<>>)
                 ELSE notFound("getJob", "JOB_NOT_FOUND")
    /\ reader' = NoReader
    /\ UNCHANGED <<models, jobs, jobsMu, cancelling, task, topics, log, sent>>

\* Mutant: a cancelled job is answered as if the cancel had deleted it.
getJob_HidesCancelled(id) ==
    /\ jobsMu = "unlocked"
    /\ resp' = IF id \in DOMAIN jobs /\ ~jobs[id].Cancelled
                 THEN Response("getJob", 200, "", id, jobs[id].State, <<>>)
                 ELSE notFound("getJob", "JOB_NOT_FOUND")
    /\ reader' = NoReader
    /\ UNCHANGED <<models, jobs, jobsMu, cancelling, task, topics, log, sent>>

\* getJob: under jobsMu.RLock the record is looked up and encoded as it is now
\* (the response carries the record's job_id and state).
getJob(id) ==
    /\ jobsMu = "unlocked"
    /\ resp' = IF id \in DOMAIN jobs
                 THEN Response("getJob", 200, "", id, jobs[id].State, <<>>)
                 ELSE notFound("getJob", "JOB_NOT_FOUND")
    /\ reader' = NoReader
    /\ UNCHANGED <<models, jobs, jobsMu, cancelling, task, topics, log, sent>>

\* listJobs: under jobsMu.RLock the records are collected in the iteration
\* order of the map, any order, and encoded (the response carries the job_id
\* and the state of each; an empty registry is encoded from a nil slice).
Orderings(S) ==
    {list \in [1..Cardinality(S) -> S] : \A x \in S : \E i \in DOMAIN list : list[i] = x}
listJobs ==
    /\ jobsMu = "unlocked"
    /\ \E list \in Orderings(DOMAIN jobs) :
          resp' = Response("listJobs", 200, "", NoJob, "",
                           [i \in DOMAIN list |->
                               [job_id |-> jobs[list[i]].JobID, state |-> jobs[list[i]].State]])
    /\ reader' = NoReader
    /\ UNCHANGED <<models, jobs, jobsMu, cancelling, task, topics, log, sent>>

\* Mutant: cancelJob clears the counters of the job it cancels.
cancelJob_ResetsTotals(id) ==
    /\ jobsMu = "unlocked"
    /\ IF id \in DOMAIN jobs
          THEN /\ jobs' = [jobs EXCEPT ![id] = [SetState(@, StateCancelled) EXCEPT
                                                !.Cancelled = TRUE,
                                                !.Totals = [Rows |-> 0, OK |-> 0, Errors |-> 0],
                                                !.UpdatedAt = Now("cancelJob")]]
               /\ jobsMu' = "locked"
               /\ cancelling' = id
               /\ resp' = NoResponse
               /\ reader' = NoReader
          ELSE /\ resp' = notFound("cancelJob", "JOB_NOT_FOUND")
               /\ reader' = NoReader
               /\ UNCHANGED <<jobs, jobsMu, cancelling>>
    /\ UNCHANGED <<models, task, topics, log, sent>>

\* Mutant: cancelJob clears the timings of the job it cancels.
cancelJob_ClearsTimings(id) ==
    /\ jobsMu = "unlocked"
    /\ IF id \in DOMAIN jobs
          THEN /\ jobs' = [jobs EXCEPT ![id] = [SetState(@, StateCancelled) EXCEPT
                                                !.Cancelled = TRUE,
                                                !.Timings = [WaitingMS |-> "", ProcessingMS |-> ""],
                                                !.UpdatedAt = Now("cancelJob")]]
               /\ jobsMu' = "locked"
               /\ cancelling' = id
               /\ resp' = NoResponse
               /\ reader' = NoReader
          ELSE /\ resp' = notFound("cancelJob", "JOB_NOT_FOUND")
               /\ reader' = NoReader
               /\ UNCHANGED <<jobs, jobsMu, cancelling>>
    /\ UNCHANGED <<models, task, topics, log, sent>>

\* Mutant: cancelJob writes FAILED in place of CANCELLED.
cancelJob_WritesFailed(id) ==
    /\ jobsMu = "unlocked"
    /\ IF id \in DOMAIN jobs
          THEN /\ jobs' = [jobs EXCEPT ![id] = [SetState(@, StateFailed) EXCEPT !.Cancelled = TRUE]]
               /\ jobsMu' = "locked"
               /\ cancelling' = id
               /\ resp' = NoResponse
               /\ reader' = NoReader
          ELSE /\ resp' = notFound("cancelJob", "JOB_NOT_FOUND")
               /\ reader' = NoReader
               /\ UNCHANGED <<jobs, jobsMu, cancelling>>
    /\ UNCHANGED <<models, task, topics, log, sent>>

\* cancelJob, lines 421-427: under jobsMu.Lock the record is marked cancelled.
cancelJob(id) ==
    /\ jobsMu = "unlocked"
    /\ IF id \in DOMAIN jobs
          THEN /\ jobs' = [jobs EXCEPT ![id] = [SetState(@, StateCancelled) EXCEPT
                                                !.Cancelled = TRUE,
                                                !.UpdatedAt = Now("cancelJob")]]
               /\ jobsMu' = "locked"
               /\ cancelling' = id
               /\ resp' = NoResponse
               /\ reader' = NoReader
          ELSE /\ resp' = notFound("cancelJob", "JOB_NOT_FOUND")
               /\ reader' = NoReader
               /\ UNCHANGED <<jobs, jobsMu, cancelling>>
    /\ UNCHANGED <<models, task, topics, log, sent>>

\* cancelJob, line 428 and the deferred Unlock: the record is encoded as it is now.
cancelJobRespond ==
    /\ jobsMu = "locked"
    /\ resp' = Response("cancelJob", 202, "", cancelling, jobs[cancelling].State, <<>>)
    /\ reader' = NoReader
    /\ jobsMu' = "unlocked"
    /\ cancelling' = NoJob
    /\ UNCHANGED <<models, jobs, task, topics, log, sent>>

\* The messages of a DLQ that decode, in log order.
RECURSIVE decodeRejected(_)
decodeRejected(msgs) ==
    IF msgs = <<>> THEN <<>>
    ELSE IF IsRejectedRowJSON(Head(msgs).value)
         THEN <<UnmarshalRejectedRow(Head(msgs).value)>> \o decodeRejected(Tail(msgs))
         ELSE decodeRejected(Tail(msgs))

\* Mutant: the reader is opened before the registry is consulted.
rejectedRows_ReaderFirst(id) ==
    /\ jobsMu = "unlocked"
    /\ IF id \notin DOMAIN jobs
          THEN /\ resp' = notFound("rejectedRows", "JOB_NOT_FOUND")
               /\ reader' = Reader(dlqTopic(id), 0)
          ELSE \E k \in 0..Len(log[dlqTopic(id)]) :
                  /\ resp' = Response("rejectedRows", 200, "", id, "",
                                      decodeRejected(SubSeq(log[dlqTopic(id)], 1, k)))
                  /\ reader' = Reader(dlqTopic(id), k)
    /\ UNCHANGED <<models, jobs, jobsMu, cancelling, task, topics, log, sent>>

\* rejectedRows: a fresh consumer group reads the DLQ topic from the first offset
\* until a fetch fails or the 3 s deadline passes, so it returns the first k
\* messages for some k up to the length of the log.
rejectedRows(id) ==
    /\ jobsMu = "unlocked"
    /\ IF id \notin DOMAIN jobs
          THEN /\ resp' = notFound("rejectedRows", "JOB_NOT_FOUND")
               /\ reader' = NoReader
          ELSE \E k \in 0..Len(log[dlqTopic(id)]) :
                  /\ resp' = Response("rejectedRows", 200, "", id, "",
                                      decodeRejected(SubSeq(log[dlqTopic(id)], 1, k)))
                  /\ reader' = Reader(dlqTopic(id), k)
    /\ UNCHANGED <<models, jobs, jobsMu, cancelling, task, topics, log, sent>>

\* ------------------------------------------- rejectedRows, statement by statement
\* rejectedRows above is the whole handler as one step.  The definitions below
\* follow the same handler through its blocking calls, so that the task, other
\* producers and other queries may act between them.

\* The suffixes randomID gives the group names, and the group of a query.
GroupSuffixes == {"g1", "g2"}
groupID(id, r) == <<"rejected-rows-reader-", id, "-", r>>

\* Where a reader of group g starts: at the offset committed for the group, at
\* kafka.FirstOffset (the earliest message, offset 0) when there is none.
StartOffset(g) == IF g \in DOMAIN groups THEN groups[g] ELSE 0

NoMessage == [key |-> "", value |-> <<>>]

\* The handler after the registry check, kafka.NewReader and context.WithTimeout:
\* its job and group, its position in the loop, the offset of the next message
\* its reader fetches, the message in hand, the rows appended to rejectedRows,
\* the offsets it called CommitMessages with, whether ctx is done, and the
\* body it wrote ("" before the response).
NewQuery(id, g) ==
    [job |-> id, group |-> g, pc |-> "fetch", offset |-> StartOffset(g),
     msg |-> NoMessage, rows |-> <<>>, commits |-> <<>>, expired |-> FALSE,
     body |-> ""]

\* The group names the queries so far drew.
GroupsDrawn == {queries[q].group : q \in DOMAIN queries}

\* Lines 435-461: an unknown job is answered 404 before a reader exists; for a
\* known job a reader is opened on the dead-letter log with a group named by a
\* draw of randomID that no query drew before, and the 3 s deadline starts.
rejectedRowsOpen(id) ==
    /\ jobsMu = "unlocked"
    /\ IF id \notin DOMAIN jobs
          THEN /\ resp' = notFound("rejectedRows", "JOB_NOT_FOUND")
               /\ reader' = NoReader
               /\ queries' = queries
          ELSE \E r \in GroupSuffixes :
                  /\ groupID(id, r) \notin GroupsDrawn
                  /\ queries' = Append(queries, NewQuery(id, groupID(id, r)))
                  /\ resp' = NoResponse
                  /\ reader' = Reader(dlqTopic(id), 0)
    /\ UNCHANGED <<models, jobs, jobsMu, cancelling, task, topics, log, sent, groups>>

\* The same when randomID draws a suffix it drew for an earlier query of the
\* job: nothing compares the draw with the earlier ones.  The model follows
\* the draws of a group whose earlier reader was closed.
rejectedRowsOpenSameGroup(id) ==
    /\ jobsMu = "unlocked"
    /\ id \in DOMAIN jobs
    /\ \E p \in DOMAIN queries :
          /\ queries[p].job = id
          /\ queries[p].pc = "done"
          /\ queries' = Append(queries, NewQuery(id, queries[p].group))
    /\ resp' = NoResponse
    /\ reader' = Reader(dlqTopic(id), 0)
    /\ UNCHANGED <<models, jobs, jobsMu, cancelling, task, topics, log, sent, groups>>

\* Line 460: the deadline of ctx passes, at any moment of a running query.
deadline(q) ==
    /\ queries[q].pc # "done"
    /\ ~queries[q].expired
    /\ queries' = [queries EXCEPT ![q].expired = TRUE]
    /\ resp' = NoResponse
    /\ reader' = NoReader
    /\ UNCHANGED <<models, jobs, jobsMu, cancelling, task, topics, log, sent, groups>>

\* writeJSON(w, 200, list) and the return: body is what the encoder writes,
\* "null" for a nil slice, "[]" for an empty one, "list" for one with entries;
\* the deferred cancel() ends ctx.
respond(q, empty) ==
    /\ queries' = [queries EXCEPT ![q].pc = "done", ![q].expired = TRUE,
                                  ![q].body = IF queries[q].rows = <<>> THEN empty ELSE "list"]
    /\ resp' = Response("rejectedRows", 200, "", queries[q].job, "", queries[q].rows)

\* Mutant: the loop has no deadline; a fetch returns when a message is there.
rejectedRowsFetch_NoDeadline(q) ==
    /\ queries[q].pc = "fetch"
    /\ queries[q].offset < Len(log[dlqTopic(queries[q].job)])
    /\ queries' = [queries EXCEPT
                      ![q].pc = "decode",
                      ![q].msg = log[dlqTopic(queries[q].job)][queries[q].offset + 1]]
    /\ resp' = NoResponse
    /\ reader' = NoReader
    /\ UNCHANGED <<models, jobs, jobsMu, cancelling, task, topics, log, sent, groups>>

\* Mutant: the reader hands out the newest message first.
rejectedRowsFetch_NewestFirst(q) ==
    /\ queries[q].pc = "fetch"
    /\ IF queries[q].expired
          THEN respond(q, "null")
          ELSE \/ /\ queries[q].offset < Len(log[dlqTopic(queries[q].job)])
                  /\ queries' = [queries EXCEPT
                                    ![q].pc = "decode",
                                    ![q].msg = log[dlqTopic(queries[q].job)]
                                                  [Len(log[dlqTopic(queries[q].job)])
                                                   - queries[q].offset]]
                  /\ resp' = NoResponse
               \/ respond(q, "[]")
    /\ reader' = NoReader
    /\ UNCHANGED <<models, jobs, jobsMu, cancelling, task, topics, log, sent, groups>>

\* Lines 464-480: one turn of the loop up to the fetch.  After the deadline the
\* select takes ctx.Done and the handler answers with rejectedRows as it is.
\* Before it, FetchMessage returns the message at the reader's offset, or an
\* error (the deadline passed while it waited, or the broker failed) and the
\* handler answers with what it has, [] when that is nothing.
rejectedRowsFetch(q) ==
    /\ queries[q].pc = "fetch"
    /\ IF queries[q].expired
          THEN respond(q, "null")
          ELSE \/ /\ queries[q].offset < Len(log[dlqTopic(queries[q].job)])
                  /\ queries' = [queries EXCEPT
                                    ![q].pc = "decode",
                                    ![q].msg = log[dlqTopic(queries[q].job)][queries[q].offset + 1]]
                  /\ resp' = NoResponse
               \/ respond(q, "[]")
    /\ reader' = NoReader
    /\ UNCHANGED <<models, jobs, jobsMu, cancelling, task, topics, log, sent, groups>>

\* CommitMessages(ctx, msg) acknowledged: the broker holds offset + 1 for group g.
Commit(g, offset) ==
    [h \in DOMAIN groups \cup {g} |-> IF h = g THEN offset + 1 ELSE groups[h]]

\* Mutant: a message that does not decode ends the query with an error.
rejectedRowsDecode_Fatal(q) ==
    /\ queries[q].pc = "decode"
    /\ IF IsRejectedRowJSON(queries[q].msg.value)
          THEN /\ queries' = [queries EXCEPT
                                 ![q].pc = "fetch", ![q].msg = NoMessage,
                                 ![q].rows = Append(@, UnmarshalRejectedRow(queries[q].msg.value)),
                                 ![q].commits = Append(@, queries[q].offset),
                                 ![q].offset = @ + 1]
               /\ resp' = NoResponse
               /\ \/ groups' = Commit(queries[q].group, queries[q].offset)
                  \/ groups' = groups
          ELSE /\ queries' = [queries EXCEPT ![q].pc = "done", ![q].body = "error",
                                            ![q].msg = NoMessage, ![q].expired = TRUE]
               /\ resp' = internalError("rejectedRows")
               /\ groups' = groups
    /\ reader' = NoReader
    /\ UNCHANGED <<models, jobs, jobsMu, cancelling, task, topics, log, sent>>

\* Lines 482-490: json.Unmarshal of the message; a RejectedRow is appended, a
\* message that does not decode is logged and left out; either way
\* CommitMessages is called for the message (its error is not looked at, so
\* the broker may or may not hold the new offset) and the loop goes on with
\* the next message.
rejectedRowsDecode(q) ==
    /\ queries[q].pc = "decode"
    /\ queries' = [queries EXCEPT
                      ![q].pc = "fetch", ![q].msg = NoMessage,
                      ![q].rows = IF IsRejectedRowJSON(queries[q].msg.value)
                                     THEN Append(@, UnmarshalRejectedRow(queries[q].msg.value))
                                     ELSE @,
                      ![q].commits = Append(@, queries[q].offset),
                      ![q].offset = @ + 1]
    /\ \/ groups' = Commit(queries[q].group, queries[q].offset)
       \/ groups' = groups
    /\ resp' = NoResponse
    /\ reader' = NoReader
    /\ UNCHANGED <<models, jobs, jobsMu, cancelling, task, topics, log, sent>>

\* Another client of the broker writes to a job's dead-letter log a message
\* that is not the JSON of a RejectedRow.  One such message is followed.
NotJSON == <<"not json">>
produce(id) ==
    /\ Len(log[dlqTopic(id)]) < MaxLog
    /\ \A i \in DOMAIN log[dlqTopic(id)] : log[dlqTopic(id)][i].value # NotJSON
    /\ log' = Append1(dlqTopic(id), "", NotJSON)
    /\ topics' = topics \cup {dlqTopic(id)}
    /\ resp' = NoResponse
    /\ reader' = NoReader
    /\ UNCHANGED <<models, jobs, jobsMu, cancelling, task, sent, queries, groups>>

\* ------------------------------------------------------------ specification
\* processJob has returned: after its last write, or after the failed dial.
Returned(id) == task[id].pc \in {"done", "aborted"}

\* The CSV uploads createJob accepts once their model is registered.
CsvUploads ==
    {u \in Uploads : /\ u.form /\ u.model_id \in ModelIDs
                     /\ u.file.present /\ u.file.size = maxUploadBytes /\ u.file.seek
                     /\ u.file.name = "data.csv" /\ u.file.head # MagicPAR1}

\* createJob when randomID draws an identifier that is already in the registry:
\* nothing compares the draw with the registry, and jobs[jobID] = js replaces
\* the record.  The model follows the draws of an identifier whose task has
\* returned and whose logs are still empty, so that one task runs per
\* identifier and the logs stay within MaxLog.
createJobSameID(u) ==
    /\ Rejection(u) = ""
    /\ jobsMu = "unlocked"
    /\ \E id \in DOMAIN jobs :
          /\ Returned(id)
          /\ log[mainTopic(id)] = <<>> /\ log[dlqTopic(id)] = <<>>
          /\ jobs' = [jobs EXCEPT ![id] = NewJobStatus(id, u.model_id)]
          /\ task' = [task EXCEPT ![id] = NewTask(u.file)]
          /\ sent' = [sent EXCEPT ![id] = <<>>]
          /\ resp' = Response("createJob", 202, "", id, "", <<>>)
          /\ reader' = NoReader
    /\ UNCHANGED <<models, jobsMu, cancelling, topics, log>>

\* createJob returns: its deferred file.Close() runs, after the response was
\* written and while the task started by "go processJob" may be anywhere.
createJobReturn(id) ==
    /\ ~task[id].f.closed
    /\ task' = [task EXCEPT ![id].f.closed = TRUE]
    /\ resp' = NoResponse
    /\ reader' = NoReader
    /\ UNCHANGED <<models, jobs, jobsMu, cancelling, topics, log, sent>>

Next ==
    \/ \E b \in ModelBodies : createModel(b) /\ UNCHANGED qvars
    \/ \E m \in ModelIDs : deleteModel(m) /\ UNCHANGED qvars
    \/ \E u \in Uploads : createJob(u) /\ UNCHANGED qvars
    \/ \E id \in DOMAIN task : processJobStart(id) /\ UNCHANGED qvars
    \/ \E id \in DOMAIN task : processJobDial(id) /\ UNCHANGED qvars
    \/ \E id \in DOMAIN task : processJobCreateTopics(id) /\ UNCHANGED qvars
    \/ \E id \in DOMAIN task : processJobRead(id) /\ UNCHANGED qvars
    \/ \E id \in DOMAIN task : processJobPublish(id) /\ UNCHANGED qvars
    \/ \E id \in DOMAIN task : sendToDLQ(id) /\ UNCHANGED qvars
    \/ \E id \in DOMAIN task : processJobFinish(id) /\ UNCHANGED qvars
    \/ listJobs /\ UNCHANGED qvars
    \/ \E id \in ReqIDs : getJob(id) /\ UNCHANGED qvars
    \/ \E id \in ReqIDs : cancelJob(id) /\ UNCHANGED qvars
    \/ cancelJobRespond /\ UNCHANGED qvars
    \/ \E id \in ReqIDs : rejectedRows(id) /\ UNCHANGED qvars

Spec == Init /\ [][Next]_vars

\* The server started against a broker that already holds the logs of the job
\* ids it will draw (created by an earlier run or by another client).
InitExisting ==
    /\ models = {}
    /\ jobs = <<>>
    /\ jobsMu = "unlocked"
    /\ cancelling = NoJob
    /\ task = <<>>
    /\ topics = Topics
    /\ log = [t \in Logs |-> <<>>]
    /\ sent = <<>>
    /\ resp = NoResponse
    /\ reader = NoReader
    /\ queries = <<>>
    /\ groups = <<>>

SpecExisting == InitExisting /\ [][Next]_vars

\* The server with clients that register models, send the uploads that
\* ParseMultipartForm stores in temporary files and poll the status, and with
\* the return of createJob as a step of its own.  (For an upload
\* kept in memory Close does nothing, which is why Spec leaves the step out.)
\* The Go scheduler runs a runnable goroutine eventually: a task that can take
\* a step takes one.
processJob(id) ==
    \/ processJobStart(id)
    \/ processJobDial(id)
    \/ processJobCreateTopics(id)
    \/ processJobRead(id)
    \/ processJobPublish(id)
    \/ sendToDLQ(id)
    \/ processJobFinish(id)

NextFiles ==
    \/ \E b \in ModelBodies : createModel(b) /\ UNCHANGED qvars
    \/ \E u \in SpilledUploads : createJob(u) /\ UNCHANGED qvars
    \/ \E id \in DOMAIN task : createJobReturn(id) /\ UNCHANGED qvars
    \/ \E id \in DOMAIN task : processJobStart(id) /\ UNCHANGED qvars
    \/ \E id \in DOMAIN task : processJobDial(id) /\ UNCHANGED qvars
    \/ \E id \in DOMAIN task : processJobCreateTopics(id) /\ UNCHANGED qvars
    \/ \E id \in DOMAIN task : processJobRead(id) /\ UNCHANGED qvars
    \/ \E id \in DOMAIN task : processJobPublish(id) /\ UNCHANGED qvars
    \/ \E id \in DOMAIN task : sendToDLQ(id) /\ UNCHANGED qvars
    \/ \E id \in DOMAIN task : processJobFinish(id) /\ UNCHANGED qvars
    \/ \E id \in ReqIDs : getJob(id) /\ UNCHANGED qvars

\* The server while the broker is unreachable: kafka.Dial fails, so no task
\* gets past it, and there is no log to read dead letters from.
processJobDialDown(id) ==
    /\ processJobDial(id)
    /\ task'[id].pc = "aborted"

NextDown ==
    \/ \E b \in ModelBodies : createModel(b) /\ UNCHANGED qvars
    \/ \E m \in ModelIDs : deleteModel(m) /\ UNCHANGED qvars
    \/ \E u \in Uploads : createJob(u) /\ UNCHANGED qvars
    \/ \E id \in DOMAIN task : processJobStart(id) /\ UNCHANGED qvars
    \/ \E id \in DOMAIN task : processJobDialDown(id) /\ UNCHANGED qvars
    \/ \E id \in ReqIDs : getJob(id) /\ UNCHANGED qvars
    \/ \E id \in ReqIDs : cancelJob(id) /\ UNCHANGED qvars
    \/ cancelJobRespond /\ UNCHANGED qvars

SpecDown == Init /\ [][NextDown]_vars

\* The server with clients that register models, send CSV uploads and poll the
\* status, and with a randomID that draws any of the identifiers.
NextAnyID ==
    \/ \E b \in ModelBodies : createModel(b) /\ UNCHANGED qvars
    \/ \E u \in CsvUploads : createJob(u) /\ UNCHANGED qvars
    \/ \E u \in CsvUploads : createJobSameID(u) /\ UNCHANGED qvars
    \/ \E id \in DOMAIN task : processJobStart(id) /\ UNCHANGED qvars
    \/ \E id \in DOMAIN task : processJobDial(id) /\ UNCHANGED qvars
    \/ \E id \in DOMAIN task : processJobCreateTopics(id) /\ UNCHANGED qvars
    \/ \E id \in DOMAIN task : processJobRead(id) /\ UNCHANGED qvars
    \/ \E id \in DOMAIN task : processJobPublish(id) /\ UNCHANGED qvars
    \/ \E id \in DOMAIN task : sendToDLQ(id) /\ UNCHANGED qvars
    \/ \E id \in DOMAIN task : processJobFinish(id) /\ UNCHANGED qvars
    \/ \E id \in ReqIDs : getJob(id) /\ UNCHANGED qvars

SpecAnyID == Init /\ [][NextAnyID]_vars

SpecFiles ==
    /\ Init
    /\ [][NextFiles]_vars
    /\ \A id \in JobIDs : WF_vars(id \in DOMAIN task /\ processJob(id) /\ UNCHANGED qvars)
    /\ \A id \in JobIDs :
          WF_vars(id \in DOMAIN task /\ createJobReturn(id) /\ UNCHANGED qvars)

\* The server after a client registered its model, with clients that send CSV
\* uploads and one dead-letter query, the query followed statement by
\* statement, and with another producer on the broker.  The handler's
\* goroutine gets to run and the clock moves on: a query that can take a step
\* takes one, and its deadline passes.
InitQuery ==
    /\ models = ModelIDs
    /\ jobs = <<>>
    /\ jobsMu = "unlocked"
    /\ cancelling = NoJob
    /\ task = <<>>
    /\ topics = {}
    /\ log = [t \in Logs |-> <<>>]
    /\ sent = <<>>
    /\ resp = NoResponse
    /\ reader = NoReader
    /\ queries = <<>>
    /\ groups = <<>>
QueryUploads == [form : {TRUE}, model_id : ModelIDs, file : {CsvFile}]
rejectedRowsStep(q) == rejectedRowsFetch(q) \/ rejectedRowsDecode(q)

NextQuery ==
    \/ \E u \in QueryUploads : createJob(u) /\ UNCHANGED qvars
    \/ \E id \in DOMAIN task : processJobStart(id) /\ UNCHANGED qvars
    \/ \E id \in DOMAIN task : processJobDial(id) /\ UNCHANGED qvars
    \/ \E id \in DOMAIN task : processJobCreateTopics(id) /\ UNCHANGED qvars
    \/ \E id \in DOMAIN task : processJobRead(id) /\ UNCHANGED qvars
    \/ \E id \in DOMAIN task : processJobPublish(id) /\ UNCHANGED qvars
    \/ \E id \in DOMAIN task : sendToDLQ(id) /\ UNCHANGED qvars
    \/ \E id \in DOMAIN task : processJobFinish(id) /\ UNCHANGED qvars
    \/ \E id \in DOMAIN jobs : produce(id)
    \/ \E id \in ReqIDs : queries = <<>> /\ rejectedRowsOpen(id)
    \/ \E q \in DOMAIN queries : deadline(q)
    \/ \E q \in DOMAIN queries : rejectedRowsFetch(q)
    \/ \E q \in DOMAIN queries : rejectedRowsDecode(q)

SpecQuery ==
    /\ InitQuery
    /\ [][NextQuery]_vars
    /\ WF_vars(queries # <<>> /\ rejectedRowsStep(1))
    /\ WF_vars(queries # <<>> /\ deadline(1))

\* The same server with clients that ask for the dead letters of a job twice,
\* with a randomID that may repeat itself, and without the other producer.
NextQueries ==
    \/ \E u \in QueryUploads : createJob(u) /\ UNCHANGED qvars
    \/ \E id \in DOMAIN task : processJobStart(id) /\ UNCHANGED qvars
    \/ \E id \in DOMAIN task : processJobDial(id) /\ UNCHANGED qvars
    \/ \E id \in DOMAIN task : processJobCreateTopics(id) /\ UNCHANGED qvars
    \/ \E id \in DOMAIN task : processJobRead(id) /\ UNCHANGED qvars
    \/ \E id \in DOMAIN task : processJobPublish(id) /\ UNCHANGED qvars
    \/ \E id \in DOMAIN task : sendToDLQ(id) /\ UNCHANGED qvars
    \/ \E id \in DOMAIN task : processJobFinish(id) /\ UNCHANGED qvars
    \/ \E id \in DOMAIN jobs : Len(queries) < 2 /\ rejectedRowsOpen(id)
    \/ \E id \in DOMAIN jobs : Len(queries) < 2 /\ rejectedRowsOpenSameGroup(id)
    \/ \E q \in DOMAIN queries : rejectedRowsFetch(q)
    \/ \E q \in DOMAIN queries : rejectedRowsDecode(q)

SpecQueries == InitQuery /\ [][NextQueries]_vars

\* The server with two jobs: one upload was accepted (its job drew EarlierJobID
\* and its task has not started), a second one follows, both tasks run, and
\* when they have returned a client asks for the dead letters of either.
InitTwoJobs ==
    /\ models = ModelIDs
    /\ jobs = (EarlierJobID :> NewJobStatus(EarlierJobID, "m1"))
    /\ jobsMu = "unlocked"
    /\ cancelling = NoJob
    /\ task = (EarlierJobID :> NewTask(CsvFile))
    /\ topics = {}
    /\ log = [t \in Logs |-> <<>>]
    /\ sent = (EarlierJobID :> <<>>)
    /\ resp = NoResponse
    /\ reader = NoReader
    /\ queries = <<>>
    /\ groups = <<>>

NextTwoJobs ==
    \/ \E u \in QueryUploads : createJob(u) /\ UNCHANGED qvars
    \/ \E id \in DOMAIN task : processJobStart(id) /\ UNCHANGED qvars
    \/ \E id \in DOMAIN task : processJobDial(id) /\ UNCHANGED qvars
    \/ \E id \in DOMAIN task : processJobCreateTopics(id) /\ UNCHANGED qvars
    \/ \E id \in DOMAIN task : processJobRead(id) /\ UNCHANGED qvars
    \/ \E id \in DOMAIN task : processJobPublish(id) /\ UNCHANGED qvars
    \/ \E id \in DOMAIN task : sendToDLQ(id) /\ UNCHANGED qvars
    \/ \E id \in DOMAIN task : processJobFinish(id) /\ UNCHANGED qvars
    \/ \E id \in DOMAIN jobs :
          (\A j \in DOMAIN task : Returned(j)) /\ rejectedRows(id) /\ UNCHANGED qvars

SpecTwoJobs == InitTwoJobs /\ [][NextTwoJobs]_vars

\* ------------------------------------------------------------------ claims
\* What an upload turned out to hold and what was done with it.
Recs(id) == task[id].f.recs
Positions(id, kind) == {i \in 1..Len(Recs(id)) : Recs(id)[i] = kind}
Calls(id, to, ack) ==
    {i \in 1..Len(sent[id]) : sent[id][i].to = to /\ sent[id][i].ack = ack}
AllAcked(id) == \A i \in 1..Len(sent[id]) : sent[id][i].ack
DeadLetters(id) == decodeRejected(log[dlqTopic(id)])
ZeroTotals == [Rows |-> 0, OK |-> 0, Errors |-> 0]

\* C1: an upload of N records that all parse and whose primary publishes are
\* all acknowledged ends, when no cancel was issued, with rows = ok = N,
\* errors = 0, state SUCCESS, and a dead-letter query that returns [].
C1_AllRowsSucceed ==
    \A id \in DOMAIN jobs :
        ( /\ task[id].pc = "done"
          /\ Positions(id, "bad") = {}
          /\ Calls(id, "main", FALSE) = {}
          /\ ~jobs[id].Cancelled )
        => /\ jobs[id].Totals = [Rows |-> Len(Recs(id)), OK |-> Len(Recs(id)), Errors |-> 0]
           /\ jobs[id].State = StateSuccess
           /\ DeadLetters(id) = <<>>
           /\ (resp.op = "rejectedRows" /\ resp.job = id)
                 => (resp.status = 200 /\ resp.rows = <<>>)

C1_Witness ==
    \E id \in DOMAIN jobs :
        /\ task[id].pc = "done"
        /\ Len(Recs(id)) >= 2
        /\ Positions(id, "bad") = {}
        /\ Calls(id, "main", FALSE) = {}
        /\ ~jobs[id].Cancelled
        /\ resp.op = "rejectedRows" /\ resp.job = id

\* The conclusion of C2 for job id: errors = M, ok = N - M, PARTIAL_SUCCESS, and
\* the dead-letter log holds exactly one RejectedRow per malformed record, with
\* the record's 1-based position as row_number.
MixedOutcome(id) ==
    LET M == Cardinality(Positions(id, "bad"))
        N == Len(Recs(id))
        dl == DeadLetters(id)
    IN  /\ jobs[id].Totals.Errors = M
        /\ jobs[id].Totals.OK = N - M
        /\ jobs[id].State = StatePartialSuccess
        /\ Len(log[dlqTopic(id)]) = M
        /\ Len(dl) = M
        /\ {dl[i].row_number : i \in 1..Len(dl)} = Positions(id, "bad")
Mixed(id) ==
    /\ task[id].pc = "done"
    /\ Positions(id, "bad") # {}
    /\ Positions(id, "ok") # {}

\* C2 as stated: N records, M of them malformed (0 < M < N): once the task has
\* finished, errors = M, ok = N - M, PARTIAL_SUCCESS, M dead letters at the
\* positions of the malformed records.
C2_Original == \A id \in DOMAIN jobs : Mixed(id) => MixedOutcome(id)

\* C2 amended: the same, for a job whose publishes (primary and dead-letter) were
\* all acknowledged and for which no cancel was issued.
C2_MixedRows ==
    \A id \in DOMAIN jobs :
        (Mixed(id) /\ AllAcked(id) /\ ~jobs[id].Cancelled) => MixedOutcome(id)

C2_Witness ==
    \E id \in DOMAIN jobs :
        /\ Mixed(id) /\ AllAcked(id) /\ ~jobs[id].Cancelled
        /\ Recs(id) = <<"bad", "ok">>
        /\ Len(DeadLetters(id)) = 1

\* C3: when the upload holds at least one record and no record reaches the
\* primary log (each is malformed or its publish fails), the task finishes by
\* writing FAILED, with ok = 0.
C3_AllRowsFail ==
    [][\A id \in DOMAIN task :
          ( /\ task[id].pc = "finish" /\ task'[id].pc = "done"
            /\ Len(Recs(id)) >= 1
            /\ Calls(id, "main", TRUE) = {} )
          => (jobs'[id].State = StateFailed /\ jobs'[id].Totals.OK = 0)]_vars

C3_Witness ==
    \E id \in DOMAIN jobs :
        /\ task[id].pc = "done"
        /\ Len(Recs(id)) >= 2
        /\ Positions(id, "ok") = {}
        /\ jobs[id].State = StateFailed
        /\ jobs[id].Totals.OK = 0

\* The transitions of the state machine, and those by which the task writes over
\* a CANCELLED that a cancel request wrote.
ListedTransitions ==
    {<<StatePending, StateRunning>>, <<StateRunning, StateSuccess>>,
     <<StateRunning, StatePartialSuccess>>, <<StateRunning, StateFailed>>}
    \cup {<<s, StateCancelled>> : s \in JobState}
CancelOverwritten ==
    {<<StateCancelled, s>> :
        s \in {StateRunning, StateSuccess, StatePartialSuccess, StateFailed}}
StateChangesWithin(allowed) ==
    \A id \in DOMAIN jobs :
        jobs'[id].State # jobs[id].State
            => <<jobs[id].State, jobs'[id].State>> \in allowed

\* C4 as stated: every change of a job's state is PENDING->RUNNING,
\* RUNNING->SUCCESS, RUNNING->PARTIAL_SUCCESS, RUNNING->FAILED or any->CANCELLED.
C4_Original == [][StateChangesWithin(ListedTransitions)]_vars

\* C4 amended: every change of a job's state is one of those, or the task writing
\* over a cancel: CANCELLED->RUNNING, ->SUCCESS, ->PARTIAL_SUCCESS, ->FAILED.
C4_Transitions == [][StateChangesWithin(ListedTransitions \cup CancelOverwritten)]_vars

C4_Witness ==
    \E id \in DOMAIN jobs :
        /\ jobs[id].Cancelled
        /\ jobs[id].State = StateRunning
        /\ task[id].pc = "dial"

\* C5: a cancel request for a known job sets state to CANCELLED at once, in
\* whatever state the job is, and its response reports state CANCELLED.
C5_CancelReportsCancelled ==
    [][/\ \A id \in DOMAIN jobs :
             (jobsMu = "unlocked" /\ jobsMu' = "locked" /\ cancelling' = id)
                => jobs'[id].State = StateCancelled
       /\ (resp'.op = "cancelJob" /\ resp'.status = 202)
             => resp'.state = StateCancelled]_vars

\* C6: the last writer wins.  Each write of the task takes effect whatever the
\* state was (RUNNING at its start, FAILED on a failed dial, the state computed
\* from the counters at its end), also over CANCELLED; so a finished task leaves
\* CANCELLED only if the cancel came after its last write.
C6_LastWriterWins ==
    [][\A id \in DOMAIN task :
          /\ (task[id].pc = "start" /\ task'[id].pc # "start")
                => jobs'[id].State = StateRunning
          /\ (task[id].pc = "dial" /\ task'[id].pc = "aborted")
                => jobs'[id].State = StateFailed
          /\ (task[id].pc = "finish" /\ task'[id].pc = "done")
                => jobs'[id].State = FinalState(jobs[id].Totals)
          /\ (task[id].pc \notin {"done", "aborted"} /\ task'[id].pc \in {"done", "aborted"})
                => jobs'[id].State # StateCancelled]_vars

C6_Witness ==
    \E id \in DOMAIN jobs :
        /\ jobs[id].Cancelled
        /\ task[id].pc = "done"
        /\ jobs[id].State \in {StateSuccess, StatePartialSuccess, StateFailed}
        /\ Len(Recs(id)) >= 1

\* The counters the outcomes of the reads and publishes of job id give.
ExpectedTotals(id) ==
    [Rows |-> Cardinality(Positions(id, "ok")),
     OK |-> Cardinality(Calls(id, "main", TRUE)),
     Errors |-> Cardinality(Positions(id, "bad")) + Cardinality(Calls(id, "main", FALSE))]
\* Every record read so far went to the primary log, and to the dead-letter log
\* when it was malformed or its primary publish failed.
EveryRecordPublished(id) ==
    \A r \in 1..Len(Recs(id)) :
        LET main == {i \in 1..Len(sent[id]) : sent[id][i].to = "main" /\ sent[id][i].row = r}
            dlq == {i \in 1..Len(sent[id]) : sent[id][i].to = "dlq" /\ sent[id][i].row = r}
        IN  IF Recs(id)[r] = "bad"
               THEN main = {} /\ Cardinality(dlq) = 1
               ELSE /\ Cardinality(main) = 1
                    /\ \A i \in main : Cardinality(dlq) = (IF sent[id][i].ack THEN 0 ELSE 1)

\* C7: a cancel never stops the row loop.  A task that got past provisioning
\* returns only after end of input, with every record read published and with the
\* totals its reads and publishes give, cancelled or not.
C7_CancelDoesNotStopLoop ==
    \A id \in DOMAIN task :
        task[id].pc = "done"
            => /\ task[id].f.eof
               /\ task[id].rowNumber = Len(Recs(id)) + 1
               /\ EveryRecordPublished(id)
               /\ jobs[id].Totals = ExpectedTotals(id)

C7_Witness ==
    \E id \in DOMAIN jobs :
        /\ task[id].pc = "done"
        /\ jobs[id].Cancelled
        /\ jobs[id].State = StatePartialSuccess
        /\ Len(Recs(id)) = 2
        /\ jobs[id].Totals = [Rows |-> 1, OK |-> 1, Errors |-> 1]

\* What C8 says of a task that could not reach the broker: FAILED with zero
\* totals, nothing read, provisioned or published, and nothing done afterwards.
\* from is the set of states the failed dial may find.
UnreachableBroker(from) ==
    \A id \in DOMAIN task :
        /\ (task[id].pc = "dial" /\ task'[id].pc = "aborted")
              => /\ jobs[id].State \in from
                 /\ jobs'[id].State = StateFailed
        /\ task'[id].pc = "aborted"
              => /\ jobs'[id].Totals = ZeroTotals
                 /\ task'[id].rowNumber = 0 /\ task'[id].f.recs = <<>> /\ ~task'[id].f.eof
                 /\ sent'[id] = <<>>
                 /\ log'[mainTopic(id)] = <<>> /\ log'[dlqTopic(id)] = <<>>
                 /\ topics' \cap {mainTopic(id), dlqTopic(id)} = {}
        /\ task[id].pc = "aborted" => task'[id] = task[id]

\* C8 as stated: when the broker cannot be reached the job goes from RUNNING
\* directly to FAILED with zero totals, no record is read or published, and the
\* task does not retry.
C8_Original == [][UnreachableBroker({StateRunning})]_vars

\* C8 amended: the same, the job going to FAILED from RUNNING, or from CANCELLED
\* when a cancel request was applied between the start of the task and the dial.
C8_UnreachableBroker == [][UnreachableBroker({StateRunning, StateCancelled})]_vars

C8_Witness ==
    \E id \in DOMAIN jobs :
        /\ task[id].pc = "aborted"
        /\ jobs[id].State = StateFailed
        /\ jobs[id].Cancelled

\* The uploads that name a model: the body parses and carries a model_id.
NamedUploads == {u \in Uploads : u.form /\ u.model_id # ""}

\* C9: an upload that names a model_id absent from the model registry is
\* answered MODEL_NOT_FOUND and by nothing else, and the step that answers
\* MODEL_NOT_FOUND creates no job record, starts no task and provisions no log.
C9_UnknownModel ==
    [][resp'.op = "createJob" =>
          /\ resp'.code = "MODEL_NOT_FOUND"
                => (resp'.status = 400 /\ UNCHANGED <<models, jobs, task, topics, log, sent>>)
          /\ resp'.code # "MODEL_NOT_FOUND"
                => \A u \in NamedUploads : u.model_id \notin models => ~createJob(u)]_vars

C9_Witness ==
    /\ resp.op = "createJob" /\ resp.code = "MODEL_NOT_FOUND"
    /\ models = {}
    /\ DOMAIN jobs # {}

\* The uploads C10 lists.
Invalid(u) ==
    \/ ~u.form
    \/ u.model_id = ""
    \/ ~u.file.present
    \/ u.file.size > maxUploadBytes
    \/ u.file.size < 4
    \/ fileType(u.file.head, u.file.name) = "unsupported"

\* The uploads whose file is shorter than the four bytes of the sniff.
ShortUploads == {u \in Uploads : u.form /\ u.file.present /\ u.file.size < 4}

\* C10: an upload with a malformed body, no model_id, no file, a file over
\* 1 GiB, a file shorter than 4 bytes or an unsupported type is answered 400 and
\* by nothing else (a short file with READ_ERROR when the checks before the sniff
\* pass), and a step that answers an error leaves the job registry, the tasks
\* and the broker as they were.
C10_RejectedUpload ==
    [][resp'.op = "createJob" =>
          /\ resp'.status # 202
                => (resp'.code # "" /\ UNCHANGED <<models, jobs, task, topics, log, sent>>)
          /\ resp'.status # 400
                => \A u \in Uploads : Invalid(u) => ~createJob(u)
          /\ resp'.code # "READ_ERROR"
                => \A u \in ShortUploads : u.model_id \in models => ~createJob(u)]_vars

C10_Witness ==
    /\ resp.op = "createJob" /\ resp.code = "READ_ERROR"
    /\ DOMAIN jobs # {}

\* C11: an accepted upload stores the record with state PENDING and zero totals
\* together with scheduling the task (which has not taken a step yet) and
\* answers with the job id without waiting for the task; no record ever leaves
\* the registry, so a status query for a job id that is in the registry is
\* never answered JOB_NOT_FOUND.
C11_AcceptedUpload ==
    [][/\ (resp'.op = "createJob" /\ resp'.status = 202)
             => /\ resp'.job \in DOMAIN jobs'
                /\ jobs'[resp'.job].JobID = resp'.job
                /\ jobs'[resp'.job].State = StatePending
                /\ jobs'[resp'.job].Totals = ZeroTotals
                /\ task'[resp'.job].pc = "start"
       /\ DOMAIN jobs \subseteq DOMAIN jobs'
       /\ (resp'.op = "getJob" /\ resp'.status # 200)
             => \A id \in DOMAIN jobs : ~getJob(id)
       /\ (resp'.op = "getJob" /\ resp'.status = 200)
             => (resp'.job \in DOMAIN jobs /\ resp'.state = jobs[resp'.job].State)]_vars

\* A status query found the job before the task took its first step.
C11_Witness ==
    /\ resp.op = "getJob" /\ resp.status = 200
    /\ resp.state = StatePending
    /\ task[resp.job].pc = "start"

\* C12: a row-level failure (a parse error or a failed primary publish) counts
\* one error and sends the row to the dead-letter log, after which the task reads
\* the next record; the row loop is left only when a read meets the end of the
\* input, the task never returns from inside the loop, and no step of the task
\* writes a response.
C12_RowFailureDoesNotAbort ==
    [][\A id \in DOMAIN task :
          /\ (task[id].pc # "dlq" /\ task'[id].pc = "dlq")
                => /\ task[id].pc \in {"read", "publish"}
                   /\ jobs'[id].Totals.Errors = jobs[id].Totals.Errors + 1
                   /\ jobs'[id].State = jobs[id].State
          /\ (task[id].pc = "dlq" /\ task'[id] # task[id])
                => /\ task'[id].pc = "read"
                   /\ task'[id].rowNumber = task[id].rowNumber
                   /\ jobs'[id] = jobs[id]
          /\ task[id].pc \in {"read", "publish", "dlq"}
                => task'[id].pc \in {"read", "publish", "dlq", "finish"}
          /\ (task[id].pc # "finish" /\ task'[id].pc = "finish")
                => (task[id].pc = "read" /\ task'[id].f.eof)
          /\ task'[id] # task[id] => resp' = NoResponse]_vars

\* Record 1 failed to publish, record 2 was read after it and reached the
\* primary log.
C12_Witness ==
    \E id \in DOMAIN jobs :
        /\ task[id].pc = "done"
        /\ Recs(id) = <<"ok", "ok">>
        /\ sent[id][1] = [to |-> "main", row |-> 1, ack |-> FALSE]
        /\ log[mainTopic(id)] = <<[key |-> id, value |-> MarshalRecord(2)]>>
        /\ jobs[id].Totals.Errors = 1

\* The acknowledged primary publishes of a job, in call order.
IsMainAck(c) == c.to = "main" /\ c.ack
MainAcked(id) == SelectSeq(sent[id], IsMainAck)

\* C13: within one job the publish calls are made one after the other in input
\* order: a call for record k+1 comes after every call for record k, a record's
\* dead-letter call comes after its failed primary call, no call is made for a
\* record the task has not read yet, and while the task is about to publish
\* record k every earlier call is for an earlier record.  So the primary log
\* holds the acknowledged records in input order.
C13_PublishInInputOrder ==
    \A id \in DOMAIN task :
        LET s == sent[id] IN
        /\ \A i, j \in 1..Len(s) :
               i < j => \/ s[i].row < s[j].row
                        \/ /\ s[i].row = s[j].row
                           /\ j = i + 1
                           /\ s[i] = [to |-> "main", row |-> s[i].row, ack |-> FALSE]
                           /\ s[j].to = "dlq"
        /\ \A i \in 1..Len(s) : s[i].row <= task[id].rowNumber
        /\ task[id].pc = "publish" => \A i \in 1..Len(s) : s[i].row < task[id].rowNumber
        /\ log[mainTopic(id)] =
              [i \in 1..Len(MainAcked(id)) |->
                  [key |-> id, value |-> MarshalRecord(MainAcked(id)[i].row)]]
        /\ \A i, j \in 1..Len(log[mainTopic(id)]) :
               i < j => log[mainTopic(id)][i].value[2] < log[mainTopic(id)][j].value[2]

\* Two records reached the primary log, the second after the first.
C13_Witness ==
    \E id \in DOMAIN jobs :
        /\ Len(log[mainTopic(id)]) = 2
        /\ log[mainTopic(id)][1].value = MarshalRecord(1)
        /\ log[mainTopic(id)][2].value = MarshalRecord(2)

\* C14: a dead-letter query for an unknown job id is answered 404 JOB_NOT_FOUND
\* and by nothing else, without a reader being opened and with the registry and
\* the broker left as they were; a query for a known job is answered 200, with
\* the empty list when the job's dead-letter log holds no entries.
C14_DeadLetterQuery ==
    [][resp'.op = "rejectedRows" =>
          /\ resp'.status = 404
                => /\ resp'.code = "JOB_NOT_FOUND"
                   /\ reader' = NoReader
                   /\ UNCHANGED <<models, jobs, task, topics, log, sent>>
          /\ resp'.status # 404
                => \A id \in ReqIDs \ DOMAIN jobs : ~rejectedRows(id)
          /\ resp'.status # 200
                => \A id \in DOMAIN jobs : ~rejectedRows(id)
          /\ resp'.status = 200
                => /\ reader'.topic = dlqTopic(resp'.job)
                   /\ log[dlqTopic(resp'.job)] = <<>> => resp'.rows = <<>>]_vars

\* A query for a job whose task failed a record but whose dead-letter log is
\* empty (the dead-letter publish failed) returned the empty list.
C14_Witness ==
    /\ resp.op = "rejectedRows" /\ resp.status = 200 /\ resp.rows = <<>>
    /\ log[dlqTopic(resp.job)] = <<>>
    /\ jobs[resp.job].Totals.Errors > 0
    /\ reader = Reader(dlqTopic(resp.job), 0)

\* C15: when the primary and the dead-letter log of a job already exist, the
\* provisioning step changes neither the job record nor the broker (the two logs
\* stay as they are, with their contents) and the task goes on to read its rows.
C15_IdempotentProvisioning ==
    [][\A id \in DOMAIN task :
          ( /\ task[id].pc = "provision" /\ task'[id].pc # "provision"
            /\ {mainTopic(id), dlqTopic(id)} \subseteq topics )
          => /\ task'[id].pc = "read"
             /\ jobs'[id] = jobs[id]
             /\ topics' = topics
             /\ log' = log]_vars

\* A job provisioned against existing logs streamed its two rows and succeeded.
C15_Witness ==
    \E id \in DOMAIN jobs :
        /\ task[id].pc = "done"
        /\ jobs[id].State = StateSuccess
        /\ ~jobs[id].Cancelled
        /\ Len(log[mainTopic(id)]) = 2
        /\ topics = Topics

\* C16: every accepted job eventually leaves the transient states: under fair
\* scheduling, with publish calls that always return, its background task
\* reaches end-of-input (or fails to reach the broker) and writes its outcome,
\* whatever the input, one whose reads keep failing included.
\* The task of an upload stored in a temporary file, whose handle createJob
\* closed on return, reads an error that is not io.EOF on every iteration and
\* never leaves the row loop.
C16_EventuallyTerminal ==
    \A id \in JobIDs : (id \in DOMAIN task) ~> (id \in DOMAIN task /\ Returned(id))

\* C18: the uploaded file handle is released only when the background task
\* ends: nothing closes it while the task may still read from it.
\* createJob closes it on return (defer file.Close()), whatever the task does.
C18_ClosedOnlyAfterTask ==
    [][\A id \in DOMAIN task :
          (~task[id].f.closed /\ task'[id].f.closed) => Returned(id)]_vars

\* C17: every write to the fields of a job record happens under the
\* registry's write exclusion: the step that changes an existing record is the
\* step that took jobsMu for writing.
\* processJob writes State, Totals and the rest with no lock at all, also
\* while cancelJob holds jobsMu for its own write of the same record.
C17_WritesUnderLock ==
    [][\A id \in DOMAIN jobs :
          jobs'[id] # jobs[id] => (jobsMu = "unlocked" /\ jobsMu' = "locked")]_vars

\* C19: job identifiers are unique and immutable: an accepted upload never
\* receives an identifier that is already in the registry, creating a job
\* leaves every existing record as it is, and no step changes the job_id of a
\* record.
\* randomID draws 8 characters with no look at the registry: a second draw
\* of the same identifier replaces the record of the first job.
C19_UniqueJobIDs ==
    [][/\ (resp'.op = "createJob" /\ resp'.status = 202) =>
             (resp'.job \notin DOMAIN jobs /\ \A id \in DOMAIN jobs : jobs'[id] = jobs[id])
       /\ \A id \in DOMAIN jobs : jobs'[id].JobID = jobs[id].JobID]_vars

\* C20: an upload made while the broker is unreachable is answered 503 with
\* code KAFKA_UNAVAILABLE (an upload rejected for its own content keeps its
\* 400 or 500).
\* createJob never contacts the broker: it answers 202 and the job fails later.
C20_UploadWhileBrokerDown ==
    [][(resp'.op = "createJob" /\ resp'.status \notin {400, 500})
          => (resp'.status = 503 /\ resp'.code = "KAFKA_UNAVAILABLE")]_vars

\* C21: job status is emitted to the batch.jobs log: every step that changes
\* the state of a job appends a JobStatus message keyed by its job_id to
\* batch.jobs.
\* No statement of the server writes to batch.jobs: the states live in the
\* registry only.
C21_StatusEmitted ==
    [][\A id \in DOMAIN jobs :
          jobs'[id].State # jobs[id].State
             => /\ Len(log'[jobsTopic]) = Len(log[jobsTopic]) + 1
                /\ log'[jobsTopic][Len(log'[jobsTopic])].key = id]_vars

\* The uploads createJob sniffs once their model is registered: a file of at
\* least 4 bytes and at most 1 GiB that can be rewound.
SniffedUploads ==
    {u \in NamedUploads : /\ u.file.present /\ u.file.seek
                          /\ u.file.size >= 4 /\ u.file.size <= maxUploadBytes}
Sniffed == resp'.op = "createJob" /\ (resp'.status = 202 \/ resp'.code = "UNSUPPORTED_FILE_TYPE")

FirstRead(id) == task[id].pc = "read" /\ task[id].rowNumber = 0 /\ task'[id].rowNumber = 1
C23_SniffNonConsuming ==
    [][\A id \in DOMAIN task' :
          /\ id \notin DOMAIN task => task'[id].f.pos = 0
          /\ (id \in DOMAIN task /\ FirstRead(id)) => task[id].f.pos = 0
          /\ id \in DOMAIN task => task'[id].f.pos = task[id].f.pos]_vars

C23_Witness ==
    \E id \in DOMAIN task :
        /\ task[id].f.pos = 0
        /\ task[id].rowNumber = 1 /\ Len(task[id].f.recs) = 1

\* C24: the row_number of a RejectedRow is the 1-based position of its record
\* among all the read attempts of the job, malformed and failed records
\* counted like successful ones: the k-th record read has row number k, in
\* the dead-letter call made for it and in the message that reaches the log.
LastOf(seq) == seq[Len(seq)]
\* A step of a task or of a request that writes a job record.
JobStep == task' # task \/ jobs' # jobs \/ sent' # sent
C24_RowNumber ==
    [][JobStep => \A id \in DOMAIN task :
          /\ (task[id].pc = "read" /\ task'[id].pc \in {"publish", "dlq"})
                => /\ Len(Recs(id)') = Len(Recs(id)) + 1
                   /\ task'[id].rowNumber = Len(Recs(id)')
          /\ (task[id].pc = "dlq" /\ task'[id].pc = "read")
                => /\ Len(Recs(id)) >= 1
                   /\ LastOf(sent'[id]) = [to |-> "dlq", row |-> Len(Recs(id)),
                                           ack |-> log' # log]
                   /\ log' # log =>
                         /\ log'[dlqTopic(id)] # log[dlqTopic(id)]
                         /\ IsRejectedRowJSON(LastOf(log'[dlqTopic(id)]).value)
                         /\ UnmarshalRejectedRow(LastOf(log'[dlqTopic(id)]).value).row_number
                               = Len(Recs(id))]_vars

\* Record 1 was published, record 2 is malformed: its RejectedRow says row 2.
C24_Witness ==
    \E id \in DOMAIN task :
        /\ Recs(id) = <<"ok", "bad">>
        /\ Calls(id, "main", TRUE) = {1}
        /\ Len(log[dlqTopic(id)]) = 1
        /\ UnmarshalRejectedRow(log[dlqTopic(id)][1].value).row_number = 2

\* The task is between two records, or past the last one: every record it has
\* read is fully handled.
Handled(t) == t.pc \in {"read", "finish", "done"}

\* C25: totals.rows is incremented only on a successful parse, and
\* totals.rows = totals.ok after every fully handled record and at completion,
\* for every input and every pattern of publish outcomes.
C25_Original ==
    \A id \in DOMAIN task :
        Handled(task[id]) => jobs[id].Totals.Rows = jobs[id].Totals.OK

\* C25 amended: totals.rows is incremented only on a successful parse, by one;
\* after every fully handled record and at completion it is the number of
\* records that parsed, and it exceeds totals.ok by the number of parsed records
\* whose primary publish failed: rows = ok iff every such publish was
\* acknowledged.
C25_RowsAndOk ==
    [][JobStep => \A id \in DOMAIN task :
          /\ jobs'[id].Totals.Rows # jobs[id].Totals.Rows
                => /\ task[id].pc = "read" /\ task'[id].pc = "publish"
                   /\ Recs(id)' = Append(Recs(id), "ok")
                   /\ jobs'[id].Totals.Rows = jobs[id].Totals.Rows + 1
          /\ Handled(task'[id])
                => /\ jobs'[id].Totals.Rows = Cardinality(Positions(id, "ok")')
                   /\ jobs'[id].Totals.Rows
                         = jobs'[id].Totals.OK + Cardinality(Calls(id, "main", FALSE)')
                   /\ (jobs'[id].Totals.Rows = jobs'[id].Totals.OK
                          <=> Calls(id, "main", FALSE)' = {})]_vars

\* Two records parsed, the publish of one failed: rows 2, ok 1.
C25_Witness ==
    \E id \in DOMAIN task :
        /\ task[id].pc = "done"
        /\ Recs(id) = <<"ok", "ok">>
        /\ jobs[id].Totals.Rows = 2 /\ jobs[id].Totals.OK = 1
        /\ Calls(id, "main", FALSE) = {2}

\* C26: every record read increments exactly one of totals.ok and
\* totals.errors, once: no step changes both, each changes by one, and after k
\* fully handled records ok + errors = k, ok <= rows, rows - ok is the number
\* of records that parsed and failed to publish, and rows = ok + errors holds
\* exactly when no record failed to parse.
C26_OkOrError ==
    [][JobStep => \A id \in DOMAIN task :
          LET T == jobs[id].Totals
              U == jobs'[id].Totals
          IN
          /\ U.OK \in {T.OK, T.OK + 1}
          /\ U.Errors \in {T.Errors, T.Errors + 1}
          /\ ~(U.OK # T.OK /\ U.Errors # T.Errors)
          /\ Handled(task'[id])
                => /\ U.OK + U.Errors = Len(Recs(id)')
                   /\ U.OK <= U.Rows
                   /\ U.Rows = U.OK + Cardinality(Calls(id, "main", FALSE)')
                   /\ U.Rows = U.OK + U.Errors <=> Positions(id, "bad")' = {}]_vars

\* One malformed record, one published: ok + errors = 2 and rows = 1.
C26_Witness ==
    \E id \in DOMAIN task :
        /\ task[id].pc = "done"
        /\ Recs(id) = <<"bad", "ok">>
        /\ jobs[id].Totals = [Rows |-> 1, OK |-> 1, Errors |-> 1]

\* C27: at end-of-input the task writes the state as a function of the
\* counters only, whatever the state was: PARTIAL_SUCCESS iff errors > 0 and
\* ok > 0, FAILED iff errors > 0 and ok = 0, SUCCESS iff errors = 0, an input
\* of zero records included; the step leaves the counters as they are.
C27_FinalState ==
    [][\A id \in DOMAIN task :
          (task[id].pc = "finish" /\ task'[id].pc = "done") =>
              LET T == jobs[id].Totals IN
              /\ jobs'[id].Totals = T
              /\ jobs'[id].State = StatePartialSuccess <=> (T.Errors > 0 /\ T.OK > 0)
              /\ jobs'[id].State = StateFailed <=> (T.Errors > 0 /\ T.OK = 0)
              /\ jobs'[id].State = StateSuccess <=> T.Errors = 0]_vars

\* An input of zero records ended SUCCESS.
C27_Witness ==
    \E id \in DOMAIN task :
        /\ task[id].pc = "done"
        /\ Recs(id) = <<>>
        /\ jobs[id].Totals = ZeroTotals
        /\ jobs[id].State = StateSuccess

\* C28: updated_at is refreshed on every mutation of a job's state or
\* counters: no step changes state, totals.rows, totals.ok or totals.errors and
\* leaves updated_at as it was.
\* The row loop increments the counters and never assigns UpdatedAt: between
\* the start of the task and its last statement the counters move under a
\* stale updated_at.
C28_UpdatedAtRefreshed ==
    [][\A id \in DOMAIN jobs :
          (jobs'[id].State # jobs[id].State \/ jobs'[id].Totals # jobs[id].Totals)
             => jobs'[id].UpdatedAt # jobs[id].UpdatedAt]_vars

\* C29: the background task is the sole mutator of a job's totals and
\* timings: a step that changes them is a step of the job's task; a cancel
\* request changes the state, cancelled and updated_at and nothing else of the
\* record; status, list and dead-letter queries, and the response of a cancel
\* request, change no field of any record.
C29_SoleMutator ==
    [][/\ \A id \in DOMAIN jobs :
             /\ (jobs'[id].Totals # jobs[id].Totals \/ jobs'[id].Timings # jobs[id].Timings)
                   => (task'[id] # task[id] /\ resp' = NoResponse /\ cancelling' = cancelling)
             /\ (cancelling' = id /\ cancelling # id)
                   => jobs'[id] = [jobs[id] EXCEPT !.State = StateCancelled,
                                                   !.Cancelled = TRUE,
                                                   !.UpdatedAt = jobs'[id].UpdatedAt]
       /\ resp'.op \in {"getJob", "listJobs", "rejectedRows", "cancelJob"} => jobs' = jobs]_vars

\* A job was cancelled while its task had counted a record: the counters and
\* the timings are those the task wrote.
C29_Witness ==
    \E id \in DOMAIN jobs :
        /\ cancelling = id
        /\ jobs[id].State = StateCancelled
        /\ jobs[id].Totals = [Rows |-> 1, OK |-> 0, Errors |-> 1]
        /\ task[id].pc = "dlq"

\* The statements of processJob in program order; the row loop is one rank.
Rank(pc) ==
    CASE pc = "start" -> 0
      [] pc = "dial" -> 1
      [] pc = "provision" -> 2
      [] pc \in {"read", "publish", "dlq"} -> 3
      [] pc = "finish" -> 4
      [] OTHER -> 5

\* C30: nothing is retried.  A task connects once and creates the logs once
\* (it never comes back to either step); for a record it calls the primary
\* writer at most once and the dead-letter writer at most once; after a
\* dead-letter publish that failed it goes on to the next read, the record in
\* neither log, the counters as they were.
C30_NoRetry ==
    [][JobStep => \A id \in DOMAIN task :
          /\ Rank(task'[id].pc) >= Rank(task[id].pc)
          /\ (task[id].pc \in {"start", "dial", "provision"} /\ task'[id] # task[id])
                => Rank(task'[id].pc) > Rank(task[id].pc)
          /\ \A i, j \in DOMAIN sent'[id] :
                (i < j /\ sent'[id][i].to = sent'[id][j].to)
                   => sent'[id][i].row < sent'[id][j].row
          /\ Len(sent'[id]) <= Len(sent[id]) + 1
          /\ (task[id].pc = "dlq" /\ task'[id] # task[id] /\ log' = log)
                => /\ task'[id].pc = "read"
                   /\ LastOf(sent'[id]) = [to |-> "dlq", row |-> task[id].rowNumber, ack |-> FALSE]
                   /\ jobs' = jobs]_vars

\* The only record failed on the primary log, then on the dead-letter log: one
\* call each, the task ended, both logs empty.
C30_Witness ==
    \E id \in DOMAIN task :
        /\ task[id].pc = "done"
        /\ sent[id] = <<[to |-> "main", row |-> 1, ack |-> FALSE],
                        [to |-> "dlq", row |-> 1, ack |-> FALSE]>>
        /\ log[mainTopic(id)] = <<>> /\ log[dlqTopic(id)] = <<>>
        /\ jobs[id].Totals = [Rows |-> 1, OK |-> 0, Errors |-> 1]

\* The positions of the row loop, and the logs of job id as the broker holds them.
InLoop(pc) == pc \in {"read", "publish", "dlq"}
JobLogs(id) == <<log[mainTopic(id)], log[dlqTopic(id)]>>

\* C31: provisioning precedes publishing.  A task calls a writer, and a message
\* lands in the job's primary or dead-letter log, only from within the row loop;
\* the row loop is entered only by the provisioning step (dial succeeded, then
\* CreateTopics called for both logs, whatever it answered); and until that
\* step nothing was sent and both logs are empty.
C31_ProvisionBeforePublish ==
    [][JobStep => \A id \in DOMAIN task :
          /\ (sent'[id] # sent[id] \/ JobLogs(id)' # JobLogs(id))
                => task[id].pc \in {"publish", "dlq"}
          /\ (InLoop(task'[id].pc) /\ ~InLoop(task[id].pc))
                => (task[id].pc = "provision" /\ processJobCreateTopics(id))
          /\ Rank(task[id].pc) <= Rank("provision")
                => (sent[id] = <<>> /\ JobLogs(id) = <<<<>>, <<>>>>)]_vars

\* A task that went through provisioning and then published to both logs.
C31_Witness ==
    \E id \in DOMAIN task :
        /\ task[id].pc = "done"
        /\ Calls(id, "main", TRUE) # {} /\ Calls(id, "dlq", TRUE) # {}
        /\ Len(log[mainTopic(id)]) = 1 /\ Len(log[dlqTopic(id)]) = 1

\* The messages of job id's dead-letter log a reader at offset n has passed,
\* and whether a list of rows ascends in row_number.
Passed(id, n) == SubSeq(log[dlqTopic(id)], 1, n)
Ascending(rows) == \A i, j \in DOMAIN rows : i < j => rows[i].row_number < rows[j].row_number

\* C32: a dead-letter query returns decodable entries of the job's dead-letter
\* log in the order they sit there: at every moment the rows a query has
\* gathered are the entries that decode among the messages its reader has
\* passed, in log order; they ascend in row_number; each carries the queried
\* job's job_id; and the response is the list gathered.
C32_OrderedDeadLetters ==
    /\ \A q \in DOMAIN queries :
          /\ queries[q].rows = decodeRejected(Passed(queries[q].job, queries[q].offset))
          /\ Ascending(queries[q].rows)
          /\ \A i \in DOMAIN queries[q].rows : queries[q].rows[i].job_id = queries[q].job
    /\ (resp.op = "rejectedRows" /\ resp.status = 200)
          => \E q \in DOMAIN queries :
                /\ queries[q].pc = "done"
                /\ resp.job = queries[q].job
                /\ resp.rows = queries[q].rows

\* A query answered with the rejected rows 1 and 2 of its job.
C32_Witness ==
    /\ resp.op = "rejectedRows" /\ resp.status = 200
    /\ Len(resp.rows) = 2
    /\ resp.rows[1].row_number = 1 /\ resp.rows[2].row_number = 2
    /\ resp.rows[1].job_id = resp.job
    /\ resp.rows[1].error = "parse" /\ resp.rows[2].error = "write"

\* C33: a message that does not decode is not fatal to the query.  The step
\* that finds it writes no response, appends nothing to the result, calls
\* CommitMessages for the message and goes on to the next fetch; so the entries
\* before and after it that decode are still gathered.
C33_DecodeFailureNotFatal ==
    [][\A q \in DOMAIN queries :
          ( /\ queries[q].pc = "decode"
            /\ ~IsRejectedRowJSON(queries[q].msg.value)
            /\ queries'[q].pc # "decode" )
          => /\ queries'[q].pc = "fetch"
             /\ queries'[q].rows = queries[q].rows
             /\ queries'[q].commits = Append(queries[q].commits, queries[q].offset)
             /\ queries'[q].offset = queries[q].offset + 1
             /\ resp' = NoResponse]_vars

\* A query over a log that holds a message that does not decode between two
\* rejected rows was answered with both rows, having committed all three.
C33_Witness ==
    \E q \in DOMAIN queries :
        /\ queries[q].pc = "done"
        /\ Len(log[dlqTopic(queries[q].job)]) = 3
        /\ log[dlqTopic(queries[q].job)][2].value = NotJSON
        /\ Len(queries[q].rows) = 2
        /\ queries[q].commits = <<0, 1, 2>>
        /\ resp.op = "rejectedRows" /\ resp.status = 200 /\ resp.rows = queries[q].rows

\* C34: every dead-letter query terminates and writes exactly one response.  A
\* query that was opened ends; it ends at the top of its loop, because the
\* fetch failed or the deadline had passed, whatever the task appended in the
\* meantime; the step that ends it writes the one response, 200 with the rows
\* gathered so far; no other step of the query writes a response, an ended
\* query does nothing more, and once the deadline has passed the query fetches
\* no further message, however many the log holds.
C34_QueryTerminates ==
    /\ (queries # <<>>) ~> (queries # <<>> /\ queries[1].pc = "done")
    /\ [][\A q \in DOMAIN queries :
             /\ queries[q].pc = "done" => queries'[q] = queries[q]
             /\ (queries[q].pc # "done" /\ queries'[q].pc = "done")
                   => /\ queries[q].pc = "fetch"
                      /\ resp' = Response("rejectedRows", 200, "", queries[q].job, "",
                                          queries[q].rows)
                      /\ queries'[q].rows = queries[q].rows
             /\ (queries'[q] # queries[q] /\ queries'[q].pc # "done")
                   => resp' = NoResponse
             /\ (queries[q].pc = "fetch" /\ queries[q].expired /\ queries'[q] # queries[q])
                   => queries'[q].pc = "done"]_vars

\* A query was answered with the first rejected row while the task, in the
\* middle of its loop, is about to publish the second.
C34_Witness ==
    \E q \in DOMAIN queries :
        /\ queries[q].pc = "done"
        /\ resp = Response("rejectedRows", 200, "", queries[q].job, "", queries[q].rows)
        /\ Len(queries[q].rows) = 1
        /\ queries[q].rows[1].row_number = 1
        /\ task[queries[q].job].pc = "dlq"
        /\ task[queries[q].job].rowNumber = 2

C36_UnknownJob ==
    [][/\ DOMAIN jobs \subseteq DOMAIN jobs'
       /\ (resp'.op = "createJob" /\ resp'.status = 202) => resp'.job \in DOMAIN jobs'
       /\ (resp'.op \in {"getJob", "cancelJob"} \/ jobsMu' = "locked")
             => /\ \A id \in ReqIDs \ DOMAIN jobs :
                      (getJob(id) \/ cancelJob(id))
                         => /\ resp'.status = 404 /\ resp'.code = "JOB_NOT_FOUND"
                            /\ jobs' = jobs /\ task' = task
                /\ \A id \in DOMAIN jobs :
                      (getJob(id) \/ cancelJob(id)) => resp'.code # "JOB_NOT_FOUND"
                /\ resp'.code = "JOB_NOT_FOUND"
                      => \A id \in DOMAIN jobs : ~getJob(id) /\ ~cancelJob(id)]_vars

\* A cancel request for an unknown id was answered JOB_NOT_FOUND while the job
\* an upload returned is running, neither cancelled nor lost.
C36_Witness ==
    /\ resp = notFound("cancelJob", "JOB_NOT_FOUND")
    /\ \E id \in DOMAIN jobs :
          /\ jobs[id].State = StateRunning
          /\ ~jobs[id].Cancelled
          /\ jobs[id].Totals.Rows = 1

\* C37: at every moment a job's dead-letter log holds at most totals.errors
\* messages.  The counter is incremented by the step that rejects the row, so
\* the task is about to call the dead-letter writer only with the row already
\* counted, and the call leaves the counters alone whether it is acknowledged
\* or fails.
C37_DeadLettersAtMostErrors ==
    /\ [](\A id \in DOMAIN jobs :
             /\ Len(log[dlqTopic(id)]) <= jobs[id].Totals.Errors
             /\ task[id].pc = "dlq" => Len(log[dlqTopic(id)]) < jobs[id].Totals.Errors)
    /\ [][JobStep => \A id \in DOMAIN task :
             /\ (task[id].pc = "dlq" /\ task'[id].pc # "dlq")
                   => jobs'[id].Totals = jobs[id].Totals
             /\ (task[id].pc # "dlq" /\ task'[id].pc = "dlq")
                   => jobs'[id].Totals.Errors = jobs[id].Totals.Errors + 1]_vars

\* A malformed record was counted in errors, its dead-letter publish failed, and
\* the job ended FAILED with the record in neither log.
C37_Witness ==
    \E id \in DOMAIN jobs :
        /\ task[id].pc = "done"
        /\ Recs(id) = <<"bad">>
        /\ Calls(id, "dlq", FALSE) # {}
        /\ jobs[id].Totals = [Rows |-> 0, OK |-> 0, Errors |-> 1]
        /\ jobs[id].State = StateFailed
        /\ log[mainTopic(id)] = <<>> /\ log[dlqTopic(id)] = <<>>

\* The parts of C38.  Every query has a group name of its own and its reader
\* starts at the earliest offset: it is at the offset that follows the
\* messages it committed itself.
FreshCursors ==
    /\ \A p, q \in DOMAIN queries : p # q => queries[p].group # queries[q].group
    /\ \A q \in DOMAIN queries : queries[q].offset = Len(queries[q].commits)
\* Two answered queries of a job returned the same list when nothing was
\* published to its dead-letter log after the earlier one had read all of it.
SameListWhenQuiet ==
    \A p, q \in DOMAIN queries :
        ( /\ p < q /\ queries[p].pc = "done" /\ queries[q].pc = "done"
          /\ queries[p].job = queries[q].job
          /\ Len(log[dlqTopic(queries[p].job)]) = queries[p].offset )
        => queries[p].rows = queries[q].rows
\* The list of a later query starts with the list of an earlier one.
IsPrefix(s, t) == Len(s) <= Len(t) /\ SubSeq(t, 1, Len(s)) = s
EarlierIsPrefix ==
    \A p, q \in DOMAIN queries :
        ( /\ p < q /\ queries[p].pc = "done" /\ queries[q].pc = "done"
          /\ queries[p].job = queries[q].job )
        => IsPrefix(queries[p].rows, queries[q].rows)

\* C38: dead-letter queries are repeatable.  Each query opens a fresh, uniquely
\* named cursor at the earliest offset, so the offsets one query committed
\* never affect another; two queries of a job with no dead-letter publish in
\* between return the same list; a later query returns a list that has the
\* earlier one as a prefix.
C38_Repeatable == FreshCursors /\ SameListWhenQuiet /\ EarlierIsPrefix

\* C39: once the task of a job has returned (after its last write, or after the
\* failed dial) the totals and timings of the job never change again, the task
\* takes no further step, and the only change of state still possible is to
\* CANCELLED; and at no step of the job's life does totals.rows, totals.ok or
\* totals.errors decrease.
C39_FrozenAfterReturn ==
    [][jobs' # jobs => \A id \in DOMAIN jobs :
          /\ jobs'[id].Totals.Rows >= jobs[id].Totals.Rows
          /\ jobs'[id].Totals.OK >= jobs[id].Totals.OK
          /\ jobs'[id].Totals.Errors >= jobs[id].Totals.Errors
          /\ Returned(id)
                => /\ jobs'[id].Totals = jobs[id].Totals
                   /\ jobs'[id].Timings = jobs[id].Timings
                   /\ task'[id] = task[id]
                   /\ jobs'[id].State # jobs[id].State
                         => jobs'[id].State = StateCancelled]_vars

\* A job that ended PARTIAL_SUCCESS was cancelled afterwards: state CANCELLED,
\* the totals and the processing time as the task left them.
C39_Witness ==
    \E id \in DOMAIN jobs :
        /\ task[id].pc = "done"
        /\ jobs[id].State = StateCancelled
        /\ jobs[id].UpdatedAt = Now("cancelJob")
        /\ jobs[id].Totals = [Rows |-> 2, OK |-> 1, Errors |-> 1]
        /\ jobs[id].Timings.ProcessingMS = Since("start")

====
